---- MODULE Spec2Model ----
(***************************************************************************)
(* A model of the agency actor runtime: the supervision loop of            *)
(* AgencyHandle::wait, the driving task that Agency::hire and              *)
(* Agency::hire_with spawn, the two mailboxes of a Context, and the        *)
(* send / send_priority / request / request_timeout operations of Addr     *)
(* and Recipient.  The tokio primitives (bounded and unbounded mpsc,       *)
(* oneshot, spawn, JoinHandle) are modelled by their documented behaviour. *)
(***************************************************************************)
EXTENDS Integers, Sequences, FiniteSets, TLC

\* ------------------------------------------------------------------ bounds

\* Number of actor slots (each slot is hired at most once).
NActors == 2
\* Number of concurrently running caller tasks that hold Addr/Recipient clones.
NCallers == 2
\* Messages sent in the specifications that do not fill the mailbox.
MaxMsgs == 3
\* Requests sent in the request specification.
MaxReqs == 2
\* run invocations per actor (the inner while loop is unbounded in the code).
MaxRuns == 2
\* run invocations per actor in the supervision specification.
MaxSupRuns == 1
\* Messages sent beyond the mailbox capacity in the backpressure specification.
MaxOverflow == 2
\* Priority messages sent beyond the mailbox capacity in that specification.
MaxPriority == 1

\* Calls of Context::message the actor makes in the backpressure specifications.
MaxReceives == 3

\* Clones made of the Addr values handed out by the hires.
MaxClones == 3

\* The notify calls an actor makes against a full mailbox.
MaxNotify == 1

\* mpsc::channel(16) in Context::new.
MailboxCapacity == 16

Actors == 1 .. NActors
Callers == 1 .. NCallers
Values == {"v1", "v2"}
Verdicts == {"Recover", "Stop"}
Hows == {"hire", "hire_with"}

\* ------------------------------------------------------------------- state

VARIABLES
    pc,               \* position of each actor's driving task
    via,              \* "hire" or "hire_with" for a hired slot
    origin,           \* who hired the slot, and whether wait had been called
    ctx_stopped,      \* Context::stopped, the stop flag
    phase,            \* "Running", "Stopped" (after next_phase), "Dropped"
    log,              \* callbacks invoked and verdicts returned, in order
    mailbox,          \* buffered messages of the bounded channel (op ids)
    priority_mailbox, \* buffered messages of the unbounded channel (op ids)
    waiters,          \* callers suspended in mailer.send, in arrival order
    received,         \* op ids returned by Context::message, in order
    cur,              \* the message the actor holds and has not yet handled
    held,             \* reply senders the actor obtained from Request::handle
    drained,          \* <<v>> once Context::drain returned the Vec v
    wait_pc,          \* position of AgencyHandle::wait
    channel,          \* JoinHandles in flight from Spawner::spawn to wait
    futures,          \* AgencyHandle::futures, the tracked JoinHandles
    hiring,           \* actor -> the actor it has spawned and not yet registered
    ext_hiring,       \* the actor outside code has spawned and not yet registered
    panics,           \* failed expectations: who panicked and where
    lateHire,         \* an outside hire overlapped or followed the call of wait
    addrs,            \* some Addr / Recipient clone exists outside the Context
    addr_id,          \* Addr::id of each Context's own Addr (0 before the hire)
    handles,          \* the Addr values handed out by hire / hire_with and their clones
    ops,              \* every send operation started: kind, target, outcome
    cpc,              \* position of each caller task
    cop               \* the operation a caller task is in (index into ops)

lifeVars == <<pc, via, origin, ctx_stopped, phase, log>>
boxVars == <<mailbox, priority_mailbox, waiters, received, cur, held, drained>>
supVars == <<wait_pc, channel, futures, hiring, ext_hiring, panics, lateHire>>
addrVars == <<addrs, addr_id, handles>>
callVars == <<ops, cpc, cop, addrVars>>
vars == <<lifeVars, boxVars, supVars, callVars>>

Init ==
    /\ pc = [a \in Actors |-> "none"]
    /\ via = [a \in Actors |-> "none"]
    /\ origin = [a \in Actors |-> [by |-> "none", after_wait |-> FALSE]]
    /\ ctx_stopped = [a \in Actors |-> FALSE]
    /\ phase = [a \in Actors |-> "none"]
    /\ log = [a \in Actors |-> <<>>]
    /\ mailbox = [a \in Actors |-> <<>>]
    /\ priority_mailbox = [a \in Actors |-> <<>>]
    /\ waiters = [a \in Actors |-> <<>>]
    /\ received = [a \in Actors |-> <<>>]
    /\ cur = [a \in Actors |-> {}]
    /\ held = [a \in Actors |-> {}]
    /\ drained = [a \in Actors |-> <<>>]
    /\ wait_pc = "idle"
    /\ channel = <<>>
    /\ futures = {}
    /\ hiring = [a \in Actors |-> {}]
    /\ ext_hiring = {}
    /\ panics = {}
    /\ lateHire = FALSE
    /\ ops = <<>>
    /\ cpc = [c \in Callers |-> "idle"]
    /\ cop = [c \in Callers |-> {}]
    /\ addrs = [a \in Actors |-> FALSE]
    /\ addr_id = [a \in Actors |-> 0]
    /\ handles = <<>>

\* ----------------------------------------------------------------- helpers

Range(s) == {s[i] : i \in DOMAIN s}

Count(s, e) == Cardinality({i \in DOMAIN s : s[i] = e})

\* The callbacks that receive &mut Context<Running>.
RunningCallbacks == {"setup", "init", "run", "stopping"}

\* The task is inside a callback and not in the middle of Spawner::spawn.
InCallback(a) == pc[a] \in RunningCallbacks /\ hiring[a] = {}

\* Mutant of Closed: next_phase leaves the receiving ends open.
Closed_only_when_dropped(a) == phase[a] = "Dropped"

\* The receiving ends were closed by next_phase or dropped with the Context.
Closed(a) == phase[a] \in {"Stopped", "Dropped"}

\* The positions of a caller inside mpsc::Sender::send after its first poll:
\* "send" is queued for a permit, "granted" was assigned the permit of a
\* consumed message and woken, and has not been polled since.
Suspended == {"send", "granted"}

\* The permits of actor a's bounded channel held by woken senders.
Reserved(a) ==
    Cardinality({c \in Callers : cpc[c] = "granted" /\ \E id \in cop[c] : ops[id].to = a})

\* Dropping the messages S drops the reply sender inside each Request.
DropMsgs(table, S) ==
    [i \in DOMAIN table |->
        IF i \in S /\ table[i].reply_to = "live"
        THEN [table[i] EXCEPT !.reply_to = "dropped"]
        ELSE table[i]]

\* Mutant of Owned: the messages still buffered in the mailbox outlive the task.
Owned_without_mailbox(a) ==
    Range(priority_mailbox[a]) \cup cur[a] \cup held[a]
        \cup (IF drained[a] = <<>> THEN {} ELSE Range(drained[a][1]))

\* Everything the driving task owns when it ends: both queues inside the
\* Context, the drained Vec, and what the actor value holds.
Owned(a) ==
    Range(mailbox[a]) \cup Range(priority_mailbox[a]) \cup cur[a] \cup held[a]
        \cup (IF drained[a] = <<>> THEN {} ELSE Range(drained[a][1]))

\* The async block of hire / hire_with ends (or unwinds): ctx and actor drop.
TaskExit(a) ==
    /\ pc' = [pc EXCEPT ![a] = "done"]
    /\ phase' = [phase EXCEPT ![a] = "Dropped"]
    /\ mailbox' = [mailbox EXCEPT ![a] = <<>>]
    /\ priority_mailbox' = [priority_mailbox EXCEPT ![a] = <<>>]
    /\ cur' = [cur EXCEPT ![a] = {}]
    /\ held' = [held EXCEPT ![a] = {}]
    /\ ops' = DropMsgs(ops, Owned(a))

\* --------------------------------------------------------------- hiring

\* Slots are taken in order: a is the first slot that was never hired.
FreshSlot(a) == pc[a] = "none" /\ \A b \in Actors : b < a => pc[b] # "none"

ExtPanicked == \E p \in panics : p.who = "outside"

\* Uuid::new_v4: an identifier that no Addr constructed so far carries.
new_v4 == Cardinality({b \in Actors : addr_id[b] # 0}) + 1

\* Addr::new for the Context of slot a: a fresh id (the field of records the
\* hire call the value descends from).
Addr_new(a) == [id |-> new_v4, of |-> a]

\* Mutant of clone: the clone draws an identifier of its own.
clone_fresh_id(x) == [x EXCEPT !.id = new_v4]

\* Clone for Addr: the id is copied.
clone(x) == [id |-> x.id, of |-> x.of]

\* PartialEq for Addr: the ids are compared.
eq(x, y) == x.id = y.id

\* Hash for Addr: the tag "addr:" and the id are fed to the hasher.
hash(x) == <<"addr:", x.id>>

\* Context::new and tokio::task::spawn: the slot's task exists and may run,
\* its Context (Running phase) holds both receiving ends.
spawn_task(a, how, by) ==
    /\ pc' = [pc EXCEPT ![a] = "spawned"]
    /\ via' = [via EXCEPT ![a] = how]
    /\ origin' = [origin EXCEPT ![a] = [by |-> by, after_wait |-> wait_pc # "idle"]]
    /\ phase' = [phase EXCEPT ![a] = "Running"]
    /\ addrs' = [addrs EXCEPT ![a] = TRUE]
    /\ addr_id' = [addr_id EXCEPT ![a] = new_v4]
    /\ handles' = Append(handles, clone(Addr_new(a)))

\* Agency::hire / hire_with called by code that is not an actor callback,
\* up to and including tokio::task::spawn inside Spawner::spawn.
hire_outside(a, how) ==
    /\ ext_hiring = {}
    /\ ~ExtPanicked
    /\ FreshSlot(a)
    /\ spawn_task(a, how, "outside")
    /\ ext_hiring' = {a}
    /\ lateHire' = (lateHire \/ wait_pc # "idle")
    /\ UNCHANGED <<ctx_stopped, log, boxVars, ops, cpc, cop>>
    /\ UNCHANGED <<wait_pc, channel, futures, hiring, panics>>

\* The rest of Spawner::spawn for an outside hire: sender.send(handle).expect.
register_outside ==
    /\ \E a \in ext_hiring :
        IF wait_pc = "done"
        THEN /\ panics' = panics \cup {[who |-> "outside", id |-> 0, why |-> "spawn"]}
             /\ UNCHANGED channel
        ELSE /\ channel' = Append(channel, a)
             /\ UNCHANGED panics
    /\ ext_hiring' = {}
    /\ UNCHANGED <<lifeVars, boxVars, callVars>>
    /\ UNCHANGED <<wait_pc, futures, hiring, lateHire>>

\* ctx.agency.hire / hire_with called inside a callback of actor h.
hire_inside(h, a, how) ==
    /\ pc[h] \in RunningCallbacks \cup {"stopped"}
    /\ hiring[h] = {}
    /\ FreshSlot(a)
    /\ spawn_task(a, how, "actor")
    /\ hiring' = [hiring EXCEPT ![h] = {a}]
    /\ UNCHANGED <<ctx_stopped, log, boxVars, ops, cpc, cop>>
    /\ UNCHANGED <<wait_pc, channel, futures, ext_hiring, panics, lateHire>>

\* The rest of Spawner::spawn inside actor h: a failed expect unwinds h's task.
register_inside(h) ==
    /\ hiring[h] # {}
    /\ hiring' = [hiring EXCEPT ![h] = {}]
    /\ IF wait_pc = "done"
       THEN /\ panics' = panics \cup {[who |-> "actor", id |-> h, why |-> "spawn"]}
            /\ TaskExit(h)
            /\ UNCHANGED channel
       ELSE /\ channel' = Append(channel, CHOOSE a \in hiring[h] : TRUE)
            /\ UNCHANGED <<panics, pc, phase, mailbox, priority_mailbox, cur, held, ops>>
    /\ UNCHANGED <<via, origin, ctx_stopped, log, waiters, received, drained>>
    /\ UNCHANGED <<wait_pc, futures, ext_hiring, lateHire, cpc, cop, addrVars>>

\* ------------------------------------------------------- the driving task

\* Mutant of task_start: hire enters the run loop without awaiting init.
task_start_skips_init(a) ==
    /\ pc[a] = "spawned"
    /\ IF via[a] = "hire"
       THEN /\ pc' = [pc EXCEPT ![a] = "loop"]
            /\ UNCHANGED log
       ELSE /\ pc' = [pc EXCEPT ![a] = "setup"]
            /\ UNCHANGED log
    /\ UNCHANGED <<via, origin, ctx_stopped, phase, boxVars, supVars, callVars>>

\* The spawned future is first polled: hire awaits init, hire_with setup.
task_start(a) ==
    /\ pc[a] = "spawned"
    /\ IF via[a] = "hire"
       THEN /\ pc' = [pc EXCEPT ![a] = "init"]
            /\ log' = [log EXCEPT ![a] = Append(@, "init")]
       ELSE /\ pc' = [pc EXCEPT ![a] = "setup"]
            /\ UNCHANGED log
    /\ UNCHANGED <<via, origin, ctx_stopped, phase, boxVars, supVars, callVars>>

\* Setup::setup returns Some(actor): init is awaited.
setup_some(a) ==
    /\ pc[a] = "setup"
    /\ hiring[a] = {}
    /\ pc' = [pc EXCEPT ![a] = "init"]
    /\ log' = [log EXCEPT ![a] = Append(@, "init")]
    /\ UNCHANGED <<via, origin, ctx_stopped, phase, boxVars, supVars, callVars>>

\* Mutant of setup_none: the lifecycle is entered although setup declined.
setup_none_runs_anyway(a) ==
    /\ pc[a] = "setup"
    /\ hiring[a] = {}
    /\ pc' = [pc EXCEPT ![a] = "init"]
    /\ log' = [log EXCEPT ![a] = Append(Append(@, "declined"), "init")]
    /\ UNCHANGED <<via, origin, ctx_stopped, phase, boxVars, supVars, callVars>>

\* Mutant of setup_none: the Context outlives the declined setup.
setup_none_keeps_context(a) ==
    /\ pc[a] = "setup"
    /\ hiring[a] = {}
    /\ pc' = [pc EXCEPT ![a] = "done"]
    /\ log' = [log EXCEPT ![a] = Append(@, "declined")]
    /\ UNCHANGED <<via, origin, ctx_stopped, phase, boxVars, supVars, callVars>>

\* Setup::setup returns None: the if-let body is skipped and the block ends.
setup_none(a) ==
    /\ pc[a] = "setup"
    /\ hiring[a] = {}
    /\ TaskExit(a)
    /\ log' = [log EXCEPT ![a] = Append(@, "declined")]
    /\ UNCHANGED <<via, origin, ctx_stopped, waiters, received, drained, supVars, cpc, cop, addrVars>>

\* actor.init returns.
init_returns(a) ==
    /\ pc[a] = "init"
    /\ hiring[a] = {}
    /\ pc' = [pc EXCEPT ![a] = "loop"]
    /\ UNCHANGED <<via, origin, ctx_stopped, phase, log, boxVars, supVars, callVars>>

\* Mutant of loop_check: the loop condition does not read the stop flag.
loop_check_ignores_flag(a) ==
    /\ pc[a] = "loop"
    /\ pc' = [pc EXCEPT ![a] = "run"]
    /\ log' = [log EXCEPT ![a] = Append(@, "run")]
    /\ UNCHANGED <<via, origin, ctx_stopped, phase, boxVars, supVars, callVars>>

\* while !ctx.stopped { run } ; then stopping.
loop_check(a) ==
    /\ pc[a] = "loop"
    /\ IF ~ctx_stopped[a]
       THEN /\ pc' = [pc EXCEPT ![a] = "run"]
            /\ log' = [log EXCEPT ![a] = Append(@, "run")]
       ELSE /\ pc' = [pc EXCEPT ![a] = "stopping"]
            /\ log' = [log EXCEPT ![a] = Append(@, "stopping")]
    /\ UNCHANGED <<via, origin, ctx_stopped, phase, boxVars, supVars, callVars>>

\* actor.run returns.
run_returns(a) ==
    /\ pc[a] = "run"
    /\ hiring[a] = {}
    /\ pc' = [pc EXCEPT ![a] = "loop"]
    /\ UNCHANGED <<via, origin, ctx_stopped, phase, log, boxVars, supVars, callVars>>

\* Context::stop.
stop(a) ==
    /\ InCallback(a)
    /\ ~ctx_stopped[a]
    /\ ctx_stopped' = [ctx_stopped EXCEPT ![a] = TRUE]
    /\ UNCHANGED <<pc, via, origin, phase, log, boxVars, supVars, callVars>>

\* Context::next_phase: both receiving ends are closed, the flag is set.
next_phase(a) ==
    /\ phase' = [phase EXCEPT ![a] = "Stopped"]
    /\ ctx_stopped' = [ctx_stopped EXCEPT ![a] = TRUE]

\* Mutant of stopping_recover: Recover does not clear the stop flag.
stopping_recover_keeps_flag(a) ==
    /\ pc[a] = "stopping"
    /\ hiring[a] = {}
    /\ pc' = [pc EXCEPT ![a] = "loop"]
    /\ log' = [log EXCEPT ![a] = Append(@, "Recover")]
    /\ UNCHANGED <<via, origin, ctx_stopped, phase, boxVars, supVars, callVars>>

\* actor.stopping returns Recover: the flag is cleared, the loop goes on.
stopping_recover(a) ==
    /\ pc[a] = "stopping"
    /\ hiring[a] = {}
    /\ ctx_stopped' = [ctx_stopped EXCEPT ![a] = FALSE]
    /\ pc' = [pc EXCEPT ![a] = "loop"]
    /\ log' = [log EXCEPT ![a] = Append(@, "Recover")]
    /\ UNCHANGED <<via, origin, phase, boxVars, supVars, callVars>>

\* actor.stopping returns Stop: break, then stopped(ctx.next_phase()).
stopping_stop(a) ==
    /\ pc[a] = "stopping"
    /\ hiring[a] = {}
    /\ next_phase(a)
    /\ pc' = [pc EXCEPT ![a] = "stopped"]
    /\ log' = [log EXCEPT ![a] = Append(Append(@, "Stop"), "stopped")]
    /\ UNCHANGED <<via, origin, boxVars, supVars, callVars>>

\* Context::drain is called in the stopped callback: the Context<Stopped> is
\* moved into the future the callback awaits.
drain_call(a) ==
    /\ pc[a] = "stopped"
    /\ hiring[a] = {}
    /\ phase[a] # "Dropped"
    /\ pc' = [pc EXCEPT ![a] = "draining"]
    /\ UNCHANGED <<via, origin, ctx_stopped, phase, log, boxVars, supVars, callVars>>

\* Mutant of Collected: the streams end only once every sender is gone.
Collected_when_senders_gone(a) == Closed(a) /\ Reserved(a) = 0 /\ ~addrs[a]

\* Both chained streams have ended: each yields None once it is closed, its
\* buffer is empty and, for the bounded one, no sender holds a permit.
Collected(a) == Closed(a) /\ Reserved(a) = 0

\* Mutant of drain: the mailbox is chained before the priority mailbox.
drain_mailbox_first(a) ==
    /\ pc[a] = "draining"
    /\ Collected(a)
    /\ drained' = [drained EXCEPT ![a] = <<mailbox[a] \o priority_mailbox[a]>>]
    /\ priority_mailbox' = [priority_mailbox EXCEPT ![a] = <<>>]
    /\ mailbox' = [mailbox EXCEPT ![a] = <<>>]
    /\ phase' = [phase EXCEPT ![a] = "Dropped"]
    /\ pc' = [pc EXCEPT ![a] = "stopped"]
    /\ UNCHANGED <<via, origin, ctx_stopped, log, waiters, received, cur, held>>
    /\ UNCHANGED <<supVars, callVars>>

\* Context::drain returns: collect() yielded the priority mailbox's messages,
\* then the mailbox's, and both streams ended; drain took the Context by
\* value, so both receivers are gone afterwards.
drain(a) ==
    /\ pc[a] = "draining"
    /\ Collected(a)
    /\ drained' = [drained EXCEPT ![a] = <<priority_mailbox[a] \o mailbox[a]>>]
    /\ priority_mailbox' = [priority_mailbox EXCEPT ![a] = <<>>]
    /\ mailbox' = [mailbox EXCEPT ![a] = <<>>]
    /\ phase' = [phase EXCEPT ![a] = "Dropped"]
    /\ pc' = [pc EXCEPT ![a] = "stopped"]
    /\ UNCHANGED <<via, origin, ctx_stopped, log, waiters, received, cur, held>>
    /\ UNCHANGED <<supVars, callVars>>

\* actor.stopped returns: the async block ends.
stopped_returns(a) ==
    /\ pc[a] = "stopped"
    /\ hiring[a] = {}
    /\ TaskExit(a)
    /\ UNCHANGED <<via, origin, ctx_stopped, log, waiters, received, drained, supVars, cpc, cop, addrVars>>

\* ------------------------------------------------------ AgencyHandle::wait

\* wait(self) is called: the handle is consumed.
wait_call ==
    /\ wait_pc = "idle"
    /\ wait_pc' = "recv"
    /\ lateHire' = (lateHire \/ ext_hiring # {})
    /\ UNCHANGED <<lifeVars, boxVars, callVars>>
    /\ UNCHANGED <<channel, futures, hiring, ext_hiring, panics>>

\* Mutant of wait_recv: the select is not biased, the completions may be
\* polled although a registration is pending.
wait_recv_unbiased ==
    /\ wait_pc = "recv"
    /\ \/ /\ channel # <<>>
          /\ futures' = futures \cup {Head(channel)}
          /\ channel' = Tail(channel)
          /\ UNCHANGED wait_pc
       \/ /\ wait_pc' = "futs"
          /\ UNCHANGED <<futures, channel>>
    /\ UNCHANGED <<lifeVars, boxVars, callVars>>
    /\ UNCHANGED <<hiring, ext_hiring, panics, lateHire>>

\* First branch of the biased select: channel.1.recv().
wait_recv ==
    /\ wait_pc = "recv"
    /\ IF channel # <<>>
       THEN /\ futures' = futures \cup {Head(channel)}
            /\ channel' = Tail(channel)
            /\ UNCHANGED wait_pc
       ELSE /\ wait_pc' = "futs"
            /\ UNCHANGED <<futures, channel>>
    /\ UNCHANGED <<lifeVars, boxVars, callVars>>
    /\ UNCHANGED <<hiring, ext_hiring, panics, lateHire>>

\* Mutant of wait_futures: a tracked task is taken out of the set although it
\* has not finished.
wait_futures_forgets_pending ==
    /\ wait_pc = "futs"
    /\ IF futures = {}
       THEN /\ wait_pc' = "done"
            /\ UNCHANGED futures
       ELSE /\ wait_pc' = "recv"
            /\ \E a \in futures : futures' = futures \ {a}
    /\ UNCHANGED <<lifeVars, boxVars, callVars>>
    /\ UNCHANGED <<channel, hiring, ext_hiring, panics, lateHire>>

\* Mutant of wait_futures: returns on the first completion it observes
\* instead of only when the tracked set is empty.
wait_futures_returns_early ==
    /\ wait_pc = "futs"
    /\ IF futures = {} \/ \E a \in futures : pc[a] = "done"
       THEN wait_pc' = "done"
       ELSE wait_pc' = "recv"
    /\ UNCHANGED <<lifeVars, boxVars, callVars>>
    /\ UNCHANGED <<futures, channel, hiring, ext_hiring, panics, lateHire>>

\* Second branch, polled when recv was pending: futures.next().
wait_futures ==
    /\ wait_pc = "futs"
    /\ IF futures = {}
       THEN /\ wait_pc' = "done"
            /\ UNCHANGED futures
       ELSE /\ wait_pc' = "recv"
            /\ \/ \E a \in futures : pc[a] = "done" /\ futures' = futures \ {a}
               \/ (\A a \in futures : pc[a] # "done") /\ UNCHANGED futures
    /\ UNCHANGED <<lifeVars, boxVars, callVars>>
    /\ UNCHANGED <<channel, hiring, ext_hiring, panics, lateHire>>

\* ------------------------------------------------------------ the channels

RequestKinds == {"request", "request_timeout"}
NormalKinds == {"send", "recipient_send"} \cup RequestKinds

\* Request::new for the request kinds: payload plus a fresh oneshot channel,
\* whose two ends are reply_to (inside the Request) and receiver (the caller's).
NewOp(kind, a) ==
    [kind |-> kind, to |-> a, res |-> "pending",
     reply_to |-> IF kind \in RequestKinds THEN "live" ELSE "none",
     receiver |-> IF kind \in RequestKinds THEN "live" ELSE "none",
     value |-> "none", handled |-> "no", replied |-> "none", waited |-> FALSE]

\* What a refused send reports: SendError, or ActorStopped for a request.
StoppedError(kind) == IF kind \in RequestKinds THEN "ActorStopped" ELSE "SendError"

\* A refused send drops the message, and with it the Request's reply sender.
Refuse(op) ==
    [op EXCEPT !.res = StoppedError(op.kind),
               !.reply_to = IF @ = "live" THEN "dropped" ELSE @,
               !.receiver = IF @ = "live" THEN "dropped" ELSE @]

\* Mutant of HasPermit: the bounded channel has one slot more than 16.
HasPermit_extra_slot(a) == Len(mailbox[a]) + Reserved(a) <= MailboxCapacity

\* A permit of the bounded channel is available: not taken by a buffered
\* message, not assigned to a woken sender.
HasPermit(a) == Len(mailbox[a]) + Reserved(a) < MailboxCapacity

\* The permit of a consumed message goes to the longest-queued sender, which
\* leaves the queue and is woken, or back to the channel.
add_permit(a) ==
    IF waiters[a] # <<>> /\ ~Closed(a)
    THEN /\ cpc' = [cpc EXCEPT ![Head(waiters[a])] = "granted"]
         /\ waiters' = [waiters EXCEPT ![a] = Tail(@)]
    ELSE UNCHANGED <<cpc, waiters>>

\* Mutant of SendersAlive: the Context keeps no Addr of its own.
SendersAlive_only_outside(a) == addrs[a]

\* Some sender of actor a's channels is alive: the Context's own Addr
\* (Context::addr) or a clone outside it.
SendersAlive(a) == phase[a] \in {"Running", "Stopped"} \/ addrs[a]

\* Mutant of StreamEnded: a stream ends as soon as no clone is left outside.
StreamEnded_when_outside_gone(a, q) == q = <<>> /\ (Closed(a) \/ ~addrs[a])

\* A stream yields None: nothing buffered and closed from either side.
StreamEnded(a, q) == q = <<>> /\ (Closed(a) \/ ~SendersAlive(a))

\* ------------------------------------------------------ Addr and Recipient

\* mpsc::Sender::send, first poll: refused when closed, enqueued when a
\* permit is free, queued behind the earlier waiters otherwise.
mailer_send(c, a, kind) ==
    /\ cpc[c] = "idle"
    /\ addrs[a]
    /\ LET id == Len(ops) + 1
           op == NewOp(kind, a)
       IN  /\ cop' = [cop EXCEPT ![c] = {id}]
           /\ IF Closed(a)
              THEN /\ ops' = Append(ops, Refuse(op))
                   /\ UNCHANGED <<mailbox, waiters, cpc>>
              ELSE IF HasPermit(a) /\ waiters[a] = <<>>
              THEN /\ mailbox' = [mailbox EXCEPT ![a] = Append(@, id)]
                   /\ IF kind \in RequestKinds
                      THEN /\ ops' = Append(ops, op)
                           /\ cpc' = [cpc EXCEPT ![c] = "await"]
                      ELSE /\ ops' = Append(ops, [op EXCEPT !.res = "Ok"])
                           /\ UNCHANGED cpc
                   /\ UNCHANGED waiters
              ELSE /\ ops' = Append(ops, [op EXCEPT !.waited = TRUE])
                   /\ waiters' = [waiters EXCEPT ![a] = Append(@, c)]
                   /\ cpc' = [cpc EXCEPT ![c] = "send"]
                   /\ UNCHANGED mailbox
    /\ UNCHANGED <<lifeVars, supVars, addrVars>>
    /\ UNCHANGED <<priority_mailbox, received, cur, held, drained>>

\* Addr::send.
send(c, a) == mailer_send(c, a, "send")

\* Mutant of recipient_send: the Recipient boxes the priority sender.
recipient_send_unbounded(c, a) ==
    /\ cpc[c] = "idle"
    /\ addrs[a]
    /\ IF Closed(a)
       THEN /\ ops' = Append(ops, Refuse(NewOp("recipient_send", a)))
            /\ UNCHANGED priority_mailbox
       ELSE /\ ops' = Append(ops, [NewOp("recipient_send", a) EXCEPT !.res = "Ok"])
            /\ priority_mailbox' = [priority_mailbox EXCEPT ![a] = Append(@, Len(ops) + 1)]
    /\ cop' = [cop EXCEPT ![c] = {Len(ops) + 1}]
    /\ UNCHANGED <<lifeVars, supVars, cpc, addrVars>>
    /\ UNCHANGED <<mailbox, waiters, received, cur, held, drained>>

\* Recipient::send through RecipientSender::send_to_recipient.
recipient_send(c, a) == mailer_send(c, a, "recipient_send")

\* Addr::request / Recipient::request up to the end of the send.
request(c, a) == mailer_send(c, a, "request")

\* Addr::request_timeout / Recipient::request_timeout up to the end of the send.
request_timeout(c, a) == mailer_send(c, a, "request_timeout")

Without(s, e) == SelectSeq(s, LAMBDA x : x # e)

\* mpsc::Sender::send, a later poll of a suspended send after its wake-up:
\* refused when the channel was closed meanwhile (an assigned permit goes
\* back to the channel), enqueued with the assigned permit otherwise.
mailer_resume(c) ==
    /\ cpc[c] \in Suspended
    /\ \E id \in cop[c] :
        LET a == ops[id].to
        IN  /\ IF Closed(a)
               THEN /\ ops' = [ops EXCEPT ![id] = Refuse(@)]
                    /\ cpc' = [cpc EXCEPT ![c] = "idle"]
                    /\ UNCHANGED mailbox
               ELSE /\ cpc[c] = "granted"
                    /\ mailbox' = [mailbox EXCEPT ![a] = Append(@, id)]
                    /\ IF ops[id].kind \in RequestKinds
                       THEN /\ cpc' = [cpc EXCEPT ![c] = "await"]
                            /\ UNCHANGED ops
                       ELSE /\ cpc' = [cpc EXCEPT ![c] = "idle"]
                            /\ ops' = [ops EXCEPT ![id].res = "Ok"]
            /\ waiters' = [waiters EXCEPT ![a] = Without(@, c)]
    /\ UNCHANGED <<lifeVars, supVars, cop, addrVars>>
    /\ UNCHANGED <<priority_mailbox, received, cur, held, drained>>

\* Mutant of priority_mailer_send: the message is put at the front of the queue.
priority_mailer_send_front(a, kind) ==
    LET id == Len(ops) + 1
        op == NewOp(kind, a)
    IN  IF Closed(a)
        THEN /\ ops' = Append(ops, Refuse(op))
             /\ UNCHANGED priority_mailbox
        ELSE /\ ops' = Append(ops, [op EXCEPT !.res = "Ok"])
             /\ priority_mailbox' = [priority_mailbox EXCEPT ![a] = <<id>> \o @]

\* Mutant of priority_mailer_send: the priority channel shares the mailbox's
\* permits, so a priority send is refused while the mailbox is full.
priority_mailer_send_bounded(a, kind) ==
    LET id == Len(ops) + 1
        op == NewOp(kind, a)
    IN  IF Closed(a) \/ ~HasPermit(a)
        THEN /\ ops' = Append(ops, Refuse(op))
             /\ UNCHANGED priority_mailbox
        ELSE /\ ops' = Append(ops, [op EXCEPT !.res = "Ok"])
             /\ priority_mailbox' = [priority_mailbox EXCEPT ![a] = Append(@, id)]

\* mpsc::UnboundedSender::send: refused when closed, enqueued otherwise.
priority_mailer_send(a, kind) ==
    LET id == Len(ops) + 1
        op == NewOp(kind, a)
    IN  IF Closed(a)
        THEN /\ ops' = Append(ops, Refuse(op))
             /\ UNCHANGED priority_mailbox
        ELSE /\ ops' = Append(ops, [op EXCEPT !.res = "Ok"])
             /\ priority_mailbox' = [priority_mailbox EXCEPT ![a] = Append(@, id)]

\* Addr::send_priority.
send_priority(c, a) ==
    /\ cpc[c] = "idle"
    /\ addrs[a]
    /\ priority_mailer_send(a, "send_priority")
    /\ cop' = [cop EXCEPT ![c] = {Len(ops) + 1}]
    /\ UNCHANGED <<lifeVars, supVars, cpc, addrVars>>
    /\ UNCHANGED <<mailbox, waiters, received, cur, held, drained>>

\* receiver.await in request / request_timeout: a value, or the sender is gone.
receiver_await(c) ==
    /\ cpc[c] = "await"
    /\ \E id \in cop[c] :
        /\ \/ /\ ops[id].value # "none"
              /\ ops' = [ops EXCEPT ![id].res = ops[id].value,
                                    ![id].receiver = "dropped"]
           \/ /\ ops[id].value = "none"
              /\ ops[id].reply_to = "dropped"
              /\ ops' = [ops EXCEPT ![id].res = "SenderDropped",
                                    ![id].receiver = "dropped"]
    /\ cpc' = [cpc EXCEPT ![c] = "idle"]
    /\ UNCHANGED <<lifeVars, boxVars, supVars, cop, addrVars>>

\* Mutant of timeout_elapsed: the receiver outlives the elapsed timeout.
timeout_elapsed_keeps_receiver(c) ==
    /\ cpc[c] = "await"
    /\ \E id \in cop[c] :
        /\ ops[id].kind = "request_timeout"
        /\ ops[id].value = "none"
        /\ ops[id].reply_to = "live"
        /\ ops' = [ops EXCEPT ![id].res = "Timeout"]
    /\ cpc' = [cpc EXCEPT ![c] = "idle"]
    /\ UNCHANGED <<lifeVars, boxVars, supVars, cop, addrVars>>

\* timeout(duration, receiver) elapses: Timeout polls the receiver first, so
\* it reports Elapsed only when no value is there and the sender is not gone.
timeout_elapsed(c) ==
    /\ cpc[c] = "await"
    /\ \E id \in cop[c] :
        /\ ops[id].kind = "request_timeout"
        /\ ops[id].value = "none"
        /\ ops[id].reply_to = "live"
        /\ ops' = [ops EXCEPT ![id].res = "Timeout", ![id].receiver = "dropped"]
    /\ cpc' = [cpc EXCEPT ![c] = "idle"]
    /\ UNCHANGED <<lifeVars, boxVars, supVars, cop, addrVars>>

\* The last Addr / Recipient clone outside the Context is dropped.
drop_addrs(a) ==
    /\ addrs[a]
    /\ \A c \in Callers : cpc[c] \in Suspended => \A id \in cop[c] : ops[id].to # a
    /\ addrs' = [addrs EXCEPT ![a] = FALSE]
    /\ handles' = SelectSeq(handles, LAMBDA h : h.of # a)
    /\ UNCHANGED addr_id
    /\ UNCHANGED <<lifeVars, boxVars, supVars, ops, cpc, cop>>

\* Addr::clone on one of the Addr values held outside the Contexts.
clone_addr(i) ==
    /\ i \in DOMAIN handles
    /\ handles' = Append(handles, clone(handles[i]))
    /\ UNCHANGED <<lifeVars, boxVars, supVars, ops, cpc, cop, addrs, addr_id>>

\* ------------------------------------------------------------- Context

\* Mutant of message_pick: the select polls the mailbox branch first.
message_pick_mailbox_first(a) ==
    IF mailbox[a] # <<>> THEN "mailbox"
    ELSE IF priority_mailbox[a] # <<>> THEN "priority"
    ELSE IF StreamEnded(a, priority_mailbox[a]) /\ StreamEnded(a, mailbox[a])
    THEN "unreachable"
    ELSE "pending"

\* What one poll of the biased select in Context::message yields: the head of
\* the priority stream, else the head of the mailbox stream, else nothing yet.
message_pick(a) ==
    IF priority_mailbox[a] # <<>> THEN "priority"
    ELSE IF mailbox[a] # <<>> THEN "mailbox"
    ELSE IF StreamEnded(a, priority_mailbox[a]) /\ StreamEnded(a, mailbox[a])
    THEN "unreachable"
    ELSE "pending"

\* Context::message, one poll that completes.
message(a) ==
    /\ InCallback(a)
    /\ cur[a] = {}
    /\ message_pick(a) # "pending"
    /\ IF message_pick(a) = "priority"
       THEN /\ cur' = [cur EXCEPT ![a] = {Head(priority_mailbox[a])}]
            /\ received' = [received EXCEPT ![a] = Append(@, Head(priority_mailbox[a]))]
            /\ priority_mailbox' = [priority_mailbox EXCEPT ![a] = Tail(@)]
            /\ UNCHANGED <<mailbox, pc, phase, held, ops, panics, cpc, waiters>>
       ELSE IF message_pick(a) = "mailbox"
       THEN /\ cur' = [cur EXCEPT ![a] = {Head(mailbox[a])}]
            /\ received' = [received EXCEPT ![a] = Append(@, Head(mailbox[a]))]
            /\ mailbox' = [mailbox EXCEPT ![a] = Tail(@)]
            /\ add_permit(a)
            /\ UNCHANGED <<priority_mailbox, pc, phase, held, ops, panics>>
       ELSE /\ panics' = panics \cup {[who |-> "actor", id |-> a, why |-> "message"]}
            /\ TaskExit(a)
            /\ UNCHANGED <<received, cpc, waiters>>
    /\ UNCHANGED <<via, origin, ctx_stopped, log, drained, cop, addrVars>>
    /\ UNCHANGED <<wait_pc, channel, futures, hiring, ext_hiring, lateHire>>

\* Context::message, a first poll that finds neither stream ready: the run
\* callback is suspended in message().
message_await(a) ==
    /\ pc[a] = "run"
    /\ hiring[a] = {}
    /\ cur[a] = {}
    /\ message_pick(a) = "pending"
    /\ pc' = [pc EXCEPT ![a] = "receiving"]
    /\ UNCHANGED <<via, origin, ctx_stopped, phase, log, boxVars, supVars, callVars>>

\* Context::message, the poll after a wake-up of the suspended run callback.
message_resume(a) ==
    /\ pc[a] = "receiving"
    /\ message_pick(a) # "pending"
    /\ IF message_pick(a) = "priority"
       THEN /\ cur' = [cur EXCEPT ![a] = {Head(priority_mailbox[a])}]
            /\ received' = [received EXCEPT ![a] = Append(@, Head(priority_mailbox[a]))]
            /\ priority_mailbox' = [priority_mailbox EXCEPT ![a] = Tail(@)]
            /\ pc' = [pc EXCEPT ![a] = "run"]
            /\ UNCHANGED <<mailbox, phase, held, ops, panics, cpc, waiters>>
       ELSE IF message_pick(a) = "mailbox"
       THEN /\ cur' = [cur EXCEPT ![a] = {Head(mailbox[a])}]
            /\ received' = [received EXCEPT ![a] = Append(@, Head(mailbox[a]))]
            /\ mailbox' = [mailbox EXCEPT ![a] = Tail(@)]
            /\ add_permit(a)
            /\ pc' = [pc EXCEPT ![a] = "run"]
            /\ UNCHANGED <<priority_mailbox, phase, held, ops, panics>>
       ELSE /\ panics' = panics \cup {[who |-> "actor", id |-> a, why |-> "message"]}
            /\ TaskExit(a)
            /\ UNCHANGED <<received, cpc, waiters>>
    /\ UNCHANGED <<via, origin, ctx_stopped, log, drained, cop, addrVars>>
    /\ UNCHANGED <<wait_pc, channel, futures, hiring, ext_hiring, lateHire>>

\* Mutant of notify: the message goes through the bounded mailer with
\* try_send, and the expect panics when no slot is free.
notify_on_mailbox(a) ==
    /\ InCallback(a)
    /\ IF Closed(a) \/ ~HasPermit(a) \/ waiters[a] # <<>>
       THEN /\ panics' = panics \cup {[who |-> "actor", id |-> a, why |-> "notify"]}
            /\ TaskExit(a)
       ELSE /\ ops' = Append(ops, [NewOp("notify", a) EXCEPT !.res = "Ok"])
            /\ mailbox' = [mailbox EXCEPT ![a] = Append(@, Len(ops) + 1)]
            /\ UNCHANGED <<pc, phase, priority_mailbox, cur, held, panics>>
    /\ UNCHANGED <<via, origin, ctx_stopped, log, waiters, received, drained, cpc, cop, addrVars>>
    /\ UNCHANGED <<wait_pc, channel, futures, hiring, ext_hiring, lateHire>>

\* Context::notify: self.addr.send_priority(msg).expect(..).
notify(a) ==
    /\ InCallback(a)
    /\ IF Closed(a)
       THEN /\ panics' = panics \cup {[who |-> "actor", id |-> a, why |-> "notify"]}
            /\ TaskExit(a)
       ELSE /\ priority_mailer_send(a, "notify")
            /\ UNCHANGED <<pc, phase, mailbox, cur, held, panics>>
    /\ UNCHANGED <<via, origin, ctx_stopped, log, waiters, received, drained, cpc, cop, addrVars>>
    /\ UNCHANGED <<wait_pc, channel, futures, hiring, ext_hiring, lateHire>>

\* ------------------------------------------------------------- Request

\* Mutant of handle: the reply sender is handed out without the is_closed check.
handle_ignores_closed(a) ==
    /\ pc[a] \in RunningCallbacks \cup {"stopped"}
    /\ hiring[a] = {}
    /\ \E id \in cur[a] :
        /\ ops[id].kind \in RequestKinds
        /\ ops' = [ops EXCEPT ![id].handled = "Some"]
        /\ held' = [held EXCEPT ![a] = @ \cup {id}]
    /\ cur' = [cur EXCEPT ![a] = {}]
    /\ UNCHANGED <<lifeVars, supVars, cpc, cop, addrVars>>
    /\ UNCHANGED <<mailbox, priority_mailbox, waiters, received, drained>>

\* Request::handle on the message the actor holds: None when the caller's
\* receiver is gone (reply_to.is_closed()), else the payload and reply sender.
handle(a) ==
    /\ pc[a] \in RunningCallbacks \cup {"stopped"}
    /\ hiring[a] = {}
    /\ \E id \in cur[a] :
        /\ ops[id].kind \in RequestKinds
        /\ IF ops[id].receiver = "dropped"
           THEN /\ ops' = [ops EXCEPT ![id].handled = "None",
                                      ![id].reply_to = "dropped"]
                /\ UNCHANGED held
           ELSE /\ ops' = [ops EXCEPT ![id].handled = "Some"]
                /\ held' = [held EXCEPT ![a] = @ \cup {id}]
    /\ cur' = [cur EXCEPT ![a] = {}]
    /\ UNCHANGED <<lifeVars, supVars, cpc, cop, addrVars>>
    /\ UNCHANGED <<mailbox, priority_mailbox, waiters, received, drained>>

\* The actor is done with the message it holds without calling handle.
discard(a) ==
    /\ pc[a] \in RunningCallbacks \cup {"stopped"}
    /\ hiring[a] = {}
    /\ cur[a] # {}
    /\ ops' = DropMsgs(ops, cur[a])
    /\ cur' = [cur EXCEPT ![a] = {}]
    /\ UNCHANGED <<lifeVars, supVars, cpc, cop, addrVars>>
    /\ UNCHANGED <<mailbox, priority_mailbox, waiters, received, held, drained>>

\* Mutant of reply_send: the value also lands in every other open reply channel.
reply_send_crossed(table, id, v) ==
    [i \in DOMAIN table |->
        IF i = id
        THEN [table[i] EXCEPT !.reply_to = "sent", !.replied = v,
                              !.value = IF table[i].receiver = "live" THEN v ELSE "none"]
        ELSE IF table[i].receiver = "live" /\ table[i].value = "none"
        THEN [table[i] EXCEPT !.value = v]
        ELSE table[i]]

\* oneshot::Sender::send on a reply sender obtained from handle: the value
\* reaches the receiver if it is still there, and is discarded otherwise.
reply_send(table, id, v) ==
    [table EXCEPT ![id].reply_to = "sent",
                  ![id].replied = v,
                  ![id].value = IF table[id].receiver = "live" THEN v ELSE "none"]

\* The responder replies to one of the requests it handled.
reply(a, id, v) ==
    /\ pc[a] \in RunningCallbacks \cup {"stopped"}
    /\ hiring[a] = {}
    /\ id \in held[a]
    /\ ops' = reply_send(ops, id, v)
    /\ held' = [held EXCEPT ![a] = @ \ {id}]
    /\ UNCHANGED <<lifeVars, supVars, cpc, cop, addrVars>>
    /\ UNCHANGED <<mailbox, priority_mailbox, waiters, received, cur, drained>>

\* The responder drops a reply sender without answering.
drop_reply(a, id) ==
    /\ pc[a] \in RunningCallbacks \cup {"stopped"}
    /\ hiring[a] = {}
    /\ id \in held[a]
    /\ ops' = DropMsgs(ops, {id})
    /\ held' = [held EXCEPT ![a] = @ \ {id}]
    /\ UNCHANGED <<lifeVars, supVars, cpc, cop, addrVars>>
    /\ UNCHANGED <<mailbox, priority_mailbox, waiters, received, cur, drained>>

\* ------------------------------------------------------- specifications

\* The steps of actor a's driving task that are part of every specification
\* (stopping returning Recover is added by the specifications that follow it).
Lifecycle(a) ==
    \/ task_start(a)
    \/ init_returns(a)
    \/ loop_check(a)
    \/ run_returns(a)
    \/ stop(a)
    \/ stopping_stop(a)
    \/ stopped_returns(a)

\* Bounds the inner while loop: no further run starts after n of them.
RunsBelow(a, n) == (pc[a] = "loop" /\ ~ctx_stopped[a]) => Count(log[a], "run") < n

WaitLoop == wait_recv \/ wait_futures

\* Supervision: hires from outside and from inside callbacks, both ways of
\* hiring, the whole lifecycle, and the wait loop.  No messages are sent.
NextSup ==
    \/ \E a \in Actors, how \in Hows : hire_outside(a, how)
    \/ register_outside
    \/ \E h \in Actors, a \in Actors, how \in Hows : hire_inside(h, a, how)
    \/ \E h \in Actors : register_inside(h)
    \/ \E a \in Actors : RunsBelow(a, MaxSupRuns) /\ Lifecycle(a)
    \/ \E a \in Actors : stopping_recover(a)
    \/ \E a \in Actors : setup_some(a)
    \/ \E a \in Actors : setup_none(a)
    \/ wait_call
    \/ WaitLoop

SpecSup == Init /\ [][NextSup]_vars /\ WF_vars(WaitLoop)

\* The actor whose mailbox and lifecycle the single-actor specifications follow.
FirstActor == {a \in Actors : \A b \in Actors : a <= b}

\* One actor, hired either way from outside: the whole lifecycle.
NextLife ==
    \/ \E a \in FirstActor, how \in Hows : hire_outside(a, how)
    \/ register_outside
    \/ \E a \in FirstActor : RunsBelow(a, MaxRuns) /\ Lifecycle(a)
    \/ \E a \in FirstActor : stopping_recover(a)
    \/ \E a \in FirstActor : setup_some(a)
    \/ \E a \in FirstActor : setup_none(a)

SpecLife == Init /\ [][NextLife]_vars

\* Bounds the number of send operations started.
MsgBudget == Len(ops) < MaxMsgs

ReqBudget == Len(ops) < MaxReqs

\* The state right after Agency::hire returned the first actor's Addr to
\* outside code: the task is spawned, its handle is in the channel.
InitHired ==
    /\ pc = [a \in Actors |-> IF a \in FirstActor THEN "spawned" ELSE "none"]
    /\ via = [a \in Actors |-> IF a \in FirstActor THEN "hire" ELSE "none"]
    /\ origin = [a \in Actors |-> [by |-> IF a \in FirstActor THEN "outside" ELSE "none",
                                    after_wait |-> FALSE]]
    /\ ctx_stopped = [a \in Actors |-> FALSE]
    /\ phase = [a \in Actors |-> IF a \in FirstActor THEN "Running" ELSE "none"]
    /\ log = [a \in Actors |-> <<>>]
    /\ mailbox = [a \in Actors |-> <<>>]
    /\ priority_mailbox = [a \in Actors |-> <<>>]
    /\ waiters = [a \in Actors |-> <<>>]
    /\ received = [a \in Actors |-> <<>>]
    /\ cur = [a \in Actors |-> {}]
    /\ held = [a \in Actors |-> {}]
    /\ drained = [a \in Actors |-> <<>>]
    /\ wait_pc = "idle"
    /\ channel = [i \in 1 .. Cardinality(FirstActor) |-> CHOOSE a \in FirstActor : TRUE]
    /\ futures = {}
    /\ hiring = [a \in Actors |-> {}]
    /\ ext_hiring = {}
    /\ panics = {}
    /\ lateHire = FALSE
    /\ ops = <<>>
    /\ cpc = [c \in Callers |-> "idle"]
    /\ cop = [c \in Callers |-> {}]
    /\ addrs = [a \in Actors |-> a \in FirstActor]
    /\ addr_id = [a \in Actors |-> IF a \in FirstActor THEN 1 ELSE 0]
    /\ handles = [i \in 1 .. Cardinality(FirstActor) |->
                    [id |-> 1, of |-> CHOOSE a \in FirstActor : TRUE]]

\* The first actor's task runs at most MaxSupRuns times and never recovers.
ShortLife ==
    \E a \in FirstActor : RunsBelow(a, MaxSupRuns) /\ Lifecycle(a)

\* Plain and priority traffic to one actor: send, send_priority, notify,
\* message, stop and drain.
NextPrio ==
    \/ ShortLife
    \/ \E a \in FirstActor : drain_call(a)
    \/ \E a \in FirstActor : drain(a)
    \/ \E c \in Callers, a \in FirstActor : MsgBudget /\ send(c, a)
    \/ \E c \in Callers, a \in FirstActor : MsgBudget /\ send_priority(c, a)
    \/ \E a \in FirstActor : MsgBudget /\ notify(a)
    \/ \E a \in FirstActor : message(a)
    \/ \E a \in FirstActor : discard(a)

SpecPrio == InitHired /\ [][NextPrio]_vars

\* The request protocol against one actor: request, request_timeout, the
\* responder's handle / reply / drop, the caller's await and timeout.
NextReq ==
    \/ ShortLife
    \/ \E c \in Callers, a \in FirstActor : ReqBudget /\ request(c, a)
    \/ \E c \in Callers, a \in FirstActor : ReqBudget /\ request_timeout(c, a)
    \/ \E c \in Callers : receiver_await(c)
    \/ \E c \in Callers : timeout_elapsed(c)
    \/ \E a \in FirstActor : message(a)
    \/ \E a \in FirstActor : handle(a)
    \/ \E a \in FirstActor : discard(a)
    \/ \E a \in FirstActor, id \in DOMAIN ops, v \in Values : reply(a, id, v)
    \/ \E a \in FirstActor, id \in DOMAIN ops : drop_reply(a, id)

SpecReq == InitHired /\ [][NextReq]_vars /\ \A c \in Callers : WF_vars(receiver_await(c))

\* The caller that has filled the mailbox in the backpressure specifications.
FirstCaller == {c \in Callers : \A d \in Callers : c <= d}

\* The state after Agency::hire returned the first actor's Addr and one caller
\* completed MailboxCapacity sends through it before the actor's task was
\* first polled: the mailbox is full.
InitFull ==
    /\ pc = [a \in Actors |-> IF a \in FirstActor THEN "spawned" ELSE "none"]
    /\ via = [a \in Actors |-> IF a \in FirstActor THEN "hire" ELSE "none"]
    /\ origin = [a \in Actors |-> [by |-> IF a \in FirstActor THEN "outside" ELSE "none",
                                    after_wait |-> FALSE]]
    /\ ctx_stopped = [a \in Actors |-> FALSE]
    /\ phase = [a \in Actors |-> IF a \in FirstActor THEN "Running" ELSE "none"]
    /\ log = [a \in Actors |-> <<>>]
    /\ mailbox = [a \in Actors |->
                    IF a \in FirstActor THEN [i \in 1 .. MailboxCapacity |-> i] ELSE <<>>]
    /\ priority_mailbox = [a \in Actors |-> <<>>]
    /\ waiters = [a \in Actors |-> <<>>]
    /\ received = [a \in Actors |-> <<>>]
    /\ cur = [a \in Actors |-> {}]
    /\ held = [a \in Actors |-> {}]
    /\ drained = [a \in Actors |-> <<>>]
    /\ wait_pc = "idle"
    /\ channel = [i \in 1 .. Cardinality(FirstActor) |-> CHOOSE a \in FirstActor : TRUE]
    /\ futures = {}
    /\ hiring = [a \in Actors |-> {}]
    /\ ext_hiring = {}
    /\ panics = {}
    /\ lateHire = FALSE
    /\ ops = [i \in 1 .. MailboxCapacity |->
                [NewOp("send", CHOOSE a \in FirstActor : TRUE) EXCEPT !.res = "Ok"]]
    /\ cpc = [c \in Callers |-> "idle"]
    /\ cop = [c \in Callers |-> IF c \in FirstCaller THEN {MailboxCapacity} ELSE {}]
    /\ addrs = [a \in Actors |-> a \in FirstActor]
    /\ addr_id = [a \in Actors |-> IF a \in FirstActor THEN 1 ELSE 0]
    /\ handles = [i \in 1 .. Cardinality(FirstActor) |->
                    [id |-> 1, of |-> CHOOSE a \in FirstActor : TRUE]]

\* The operations of the given kinds started once the mailbox had been filled.
Extra(kinds) == {i \in DOMAIN ops : i > MailboxCapacity /\ ops[i].kind \in kinds}

\* Bounds the operations on the mailbox started after the filling.
OverflowBudget == Cardinality(Extra(NormalKinds)) < MaxOverflow

\* Bounds the priority sends started after the filling.
PriorityBudget == Cardinality(Extra({"send_priority"})) < MaxPriority

\* Bounds the priority sends of a burst: enough to outgrow the mailbox's capacity.
BurstBudget == Cardinality(Extra({"send_priority"})) < MailboxCapacity + MaxPriority

\* Bounds the messages the actor asks for.
ReceiveBudget == \A a \in Actors : Len(received[a]) < MaxReceives

\* Backpressure: against a full mailbox the callers start operations of every
\* kind while the actor consumes, stops and drains.
NextFull ==
    \/ ShortLife
    \/ \E a \in FirstActor : drain_call(a)
    \/ \E a \in FirstActor : drain(a)
    \/ \E c \in Callers, a \in FirstActor : OverflowBudget /\ send(c, a)
    \/ \E c \in Callers, a \in FirstActor : OverflowBudget /\ recipient_send(c, a)
    \/ \E c \in Callers, a \in FirstActor : OverflowBudget /\ request(c, a)
    \/ \E c \in Callers, a \in FirstActor : OverflowBudget /\ request_timeout(c, a)
    \/ \E c \in Callers, a \in FirstActor : PriorityBudget /\ send_priority(c, a)
    \/ \E c \in Callers : mailer_resume(c)
    \/ \E c \in Callers : receiver_await(c)
    \/ \E a \in FirstActor : ReceiveBudget /\ message(a)
    \/ \E a \in FirstActor : discard(a)

SpecFull == InitFull /\ [][NextFull]_vars /\ \A c \in Callers : WF_vars(mailer_resume(c))

\* No priority send of the burst was started yet.
BeforeBurst == Extra({"send_priority"}) = {}

\* A burst of priority sends against a full mailbox, after the other callers
\* started their sends, while the actor consumes and stops.
NextBurst ==
    \/ ShortLife
    \/ \E c \in Callers \ FirstCaller, a \in FirstActor :
           BeforeBurst /\ OverflowBudget /\ send(c, a)
    \/ \E c \in FirstCaller, a \in FirstActor : BurstBudget /\ send_priority(c, a)
    \/ \E c \in Callers : mailer_resume(c)
    \/ \E a \in FirstActor : ReceiveBudget /\ message(a)
    \/ \E a \in FirstActor : discard(a)

SpecBurst == InitFull /\ [][NextBurst]_vars

\* Hiring through Setup: one actor hired either way from outside, callers
\* that send, send_priority and request through the returned Addr before,
\* while and after setup runs, and the actor's lifecycle when setup accepts.
NextSetup ==
    \/ \E a \in FirstActor, how \in Hows : hire_outside(a, how)
    \/ register_outside
    \/ ShortLife
    \/ \E a \in FirstActor : setup_some(a)
    \/ \E a \in FirstActor : setup_none(a)
    \/ \E c \in Callers, a \in FirstActor : MsgBudget /\ send(c, a)
    \/ \E c \in Callers, a \in FirstActor : MsgBudget /\ send_priority(c, a)
    \/ \E c \in Callers, a \in FirstActor : MsgBudget /\ request(c, a)
    \/ \E c \in Callers : receiver_await(c)
    \/ \E a \in FirstActor : message(a)
    \/ \E a \in FirstActor : discard(a)

SpecSetup == Init /\ [][NextSetup]_vars

\* Bounds the clones: the hires hand out at most NActors values.
CloneBudget == Len(handles) < NActors + MaxClones

\* Addresses: hires from outside and from inside callbacks, both ways of
\* hiring, clones of every Addr handed out, and the actors' lifecycles.
NextAddr ==
    \/ \E a \in Actors, how \in Hows : hire_outside(a, how)
    \/ register_outside
    \/ \E h \in Actors, a \in Actors, how \in Hows : hire_inside(h, a, how)
    \/ \E h \in Actors : register_inside(h)
    \/ \E a \in Actors : RunsBelow(a, MaxSupRuns) /\ Lifecycle(a)
    \/ \E a \in Actors : setup_some(a)
    \/ \E a \in Actors : setup_none(a)
    \/ \E i \in 1 .. NActors + MaxClones : CloneBudget /\ clone_addr(i)

SpecAddr == Init /\ [][NextAddr]_vars

\* The driving task of an actor whose run calls ctx.stop() in its first
\* invocation and returns, and whose stopping is the default (Stop).
StopFirst(a) ==
    \/ task_start(a)
    \/ init_returns(a)
    \/ loop_check(a)
    \/ pc[a] = "run" /\ stop(a)
    \/ ctx_stopped[a] /\ run_returns(a)
    \/ stopping_stop(a)
    \/ stopped_returns(a)

\* Such actors are hired by hire from outside, then wait() is called.
NextStopFirst ==
    \/ \E a \in Actors : wait_pc = "idle" /\ hire_outside(a, "hire")
    \/ register_outside
    \/ \E a \in Actors : StopFirst(a)
    \/ ext_hiring = {} /\ wait_call
    \/ WaitLoop

\* The runtime polls every spawned task and the task that awaits wait().
SpecStopFirst ==
    /\ Init
    /\ [][NextStopFirst]_vars
    /\ WF_vars(WaitLoop)
    /\ \A a \in Actors : WF_vars(StopFirst(a))

\* ------------------------------------------------------------------ claims

Last(s) == s[Len(s)]

Finished(a) == pc[a] \in {"none", "done"}

\* C2 as stated: once wait() has returned, every actor hired through the
\* paired Agency has finished its driving task.
C2_WaitReturnedOnlyWhenAllFinished ==
    wait_pc = "done" => \A a \in Actors : Finished(a)

\* C2 amended: provided every hire made from outside an actor is complete
\* before wait() is called, wait() has returned only if every hired actor's
\* task has finished (actors hired by actors after the call included), and
\* once all of them have finished wait() does return.
C2_WaitTracksActorHires ==
    /\ [](wait_pc = "done" /\ ~lateHire => \A a \in Actors : Finished(a))
    /\ (wait_pc # "idle" /\ \A a \in Actors : Finished(a))
           ~> (wait_pc = "done" \/ lateHire)

\* C2 witness: wait() returned after an actor that another actor hired after
\* the call of wait() has finished.
C2_Witness ==
    /\ wait_pc = "done"
    /\ ~lateHire
    /\ \E a \in Actors :
        origin[a].by = "actor" /\ origin[a].after_wait /\ pc[a] = "done"

PriorityKinds == {"send_priority", "notify"}

\* The accepted messages of actor a, of the given kinds, that message() has
\* not returned yet.
Pending(a, kinds) ==
    {i \in DOMAIN ops :
        /\ ops[i].to = a
        /\ ops[i].kind \in kinds
        /\ i \in Range(mailbox[a]) \cup Range(priority_mailbox[a])}

Oldest(S) == CHOOSE i \in S : \A j \in S : i <= j

\* message() returned a message in this step.
MessageReturned(a) == received'[a] # received[a]

\* C1: whenever a priority message (send_priority or notify) is pending when
\* message() is polled, message() returns the oldest pending priority
\* message, however many normal messages are pending and whenever they were
\* sent; a normal message is returned only when no priority message is pending.
C1_PriorityPrecedence ==
    [][\A a \in Actors :
        MessageReturned(a) =>
            IF Pending(a, PriorityKinds) # {}
            THEN Last(received'[a]) = Oldest(Pending(a, PriorityKinds))
            ELSE Last(received'[a]) = Oldest(Pending(a, NormalKinds))]_vars

\* C1 witness: message() has returned a priority message while a normal
\* message that was sent earlier is still waiting in the mailbox.
C1_Witness ==
    \E a \in Actors : \E i \in Range(received[a]) : \E j \in Range(mailbox[a]) :
        /\ ops[i].kind \in PriorityKinds
        /\ ops[j].kind \in NormalKinds
        /\ j < i

Verdict(e) == e \in Verdicts

VerdictsOf(a) == SelectSeq(log[a], Verdict)

\* An event was appended to actor a's log in this step.
Logged(a, e) == log'[a] # log[a] /\ Last(log'[a]) = e

\* In the log, a run lies between the verdicts at positions i and j.
RunBetween(a, i, j) == \E k \in i .. j : log[a][k] = "run"

\* C3: no run starts while the stop flag is set; the flag set by stop() stays
\* set until stopping returns Recover, which clears it and sends the task
\* back to the run loop; after stopping returns Stop, stopped is invoked and
\* nothing else is invoked afterwards.  With the verdicts Recover then Stop,
\* run is invoked again between the two and stopped exactly once, last.
C3_StopRecover ==
    /\ [][\A a \in Actors :
            /\ Logged(a, "run") => ~ctx_stopped[a]
            /\ (ctx_stopped[a] /\ ~ctx_stopped'[a]) => Logged(a, "Recover")
            /\ Logged(a, "Recover") => (~ctx_stopped'[a] /\ pc'[a] = "loop")
            /\ (pc[a] = "loop" /\ pc'[a] # "loop") =>
                   pc'[a] = (IF ctx_stopped[a] THEN "stopping" ELSE "run")
            /\ Count(log[a], "Stop") > 0 => log'[a] = log[a]]_vars
    /\ [](\A a \in Actors :
            /\ Count(log[a], "Stop") > 0 =>
                   (Last(log[a]) = "stopped" /\ Count(log[a], "stopped") = 1)
            /\ Count(log[a], "Stop") = 0 => Count(log[a], "stopped") = 0
            /\ \A i \in DOMAIN log[a] : \A j \in DOMAIN log[a] :
                   (i < j /\ log[a][i] = "Recover" /\ Verdict(log[a][j]))
                       => RunBetween(a, i, j))

\* C3 witness: stop in run, Recover, run again, stop, Stop, stopped once.
C3_Witness ==
    \E a \in Actors :
        /\ pc[a] = "done"
        /\ log[a] = <<"init", "run", "stopping", "Recover",
                      "run", "stopping", "Stop", "stopped">>

Declined(a) == Count(log[a], "declined") > 0

\* C10: when Setup::setup returned no actor, none of init, run, stopping and
\* stopped is ever invoked for that hire, and the driving task has finished,
\* so wait() treats its handle as complete.
C10_DeclinedSetupSkipsLifecycle ==
    \A a \in Actors :
        Declined(a) => (log[a] = <<"declined">> /\ pc[a] = "done")

\* C10 witness: wait() returned although setup declined for a hired actor.
C10_Witness ==
    /\ wait_pc = "done"
    /\ ~lateHire
    /\ \E a \in Actors : via[a] = "hire_with" /\ Declined(a)

\* The request operations that returned a response value to their caller.
Answered == {i \in DOMAIN ops : ops[i].res \in Values}

\* C5: a request returns exactly the value the responder passed to the reply
\* sender it obtained from handle() on that same Request; with several
\* requests in flight, no caller receives the reply to another request.
C5_RequestGetsOwnReply ==
    \A i \in Answered :
        /\ ops[i].kind \in RequestKinds
        /\ ops[i].handled = "Some"
        /\ ops[i].replied = ops[i].res

\* C5 witness: two requests were in flight at once and answered with
\* different values; the later one has returned its own value while the
\* earlier one's reply is delivered and not yet picked up.
C5_Witness ==
    \E i \in Answered : \E j \in DOMAIN ops :
        /\ j < i
        /\ ops[i].kind = "request" /\ ops[j].kind = "request"
        /\ ops[j].res = "pending"
        /\ ops[j].value \in Values
        /\ ops[j].value # ops[i].res

\* The caller of operation i is still inside it.
InFlight(i) == \E c \in Callers : cop[c] = {i} /\ cpc[c] # "idle"

\* handle() was called on Request i in this step.
Handled(i) == ops[i].handled = "no" /\ ops'[i].handled # "no"

\* C6: when the caller of request_timeout has timed out before the responder
\* calls handle() on that Request, the caller has returned Timeout and is not
\* blocked, the responder's handle() yields None, nothing panics, and the
\* responder stays in its callback free to take its next message.
C6_HandleAfterTimeout ==
    /\ [](\A i \in DOMAIN ops : ops[i].res = "Timeout" => ~InFlight(i))
    /\ [][\A a \in Actors : \A i \in cur[a] :
            (ops[i].res = "Timeout" /\ Handled(i)) =>
                /\ ops'[i].handled = "None"
                /\ held' = held
                /\ panics' = panics
                /\ pc' = pc
                /\ cur'[a] = {}]_vars

\* C6 witness: a request_timeout timed out while its Request was not yet
\* handled, and the responder then called handle() on it and went on to
\* receive a later message.
C6_Witness ==
    \E a \in Actors : \E i \in DOMAIN ops :
        /\ ops[i].kind = "request_timeout"
        /\ ops[i].res = "Timeout"
        /\ ops[i].handled = "None"
        /\ panics = {}
        /\ \E j \in cur[a] : j > i

\* A request was started in this step.
RequestStarted ==
    Len(ops') = Len(ops) + 1 /\ Last(ops').kind = "request"

\* Request i was enqueued and will get no reply: the actor's task finished,
\* or the Request or its reply sender was dropped, without a value sent.
Unanswerable(i) ==
    /\ i \in DOMAIN ops
    /\ ops[i].kind = "request"
    /\ ops[i].res = "pending"
    /\ ops[i].replied = "none"
    /\ pc[ops[i].to] = "done" \/ ops[i].reply_to = "dropped"

\* Request i has returned SenderDropped to its caller.
GotSenderDropped(i) == i \in DOMAIN ops /\ ops[i].res = "SenderDropped"

\* C7: a request whose send is refused because the target has stopped returns
\* ActorStopped at once; a request that was enqueued and whose target
\* finishes, or drops the Request or its reply sender, without replying
\* eventually returns SenderDropped.
C7_RequestToStoppingActor ==
    /\ [][RequestStarted =>
            (phase[Last(ops').to] \in {"Stopped", "Dropped"} =>
                /\ Last(ops').res = "ActorStopped"
                /\ \A c \in Callers :
                       cop'[c] = {Len(ops')} => cpc'[c] = "idle")]_vars
    /\ \A i \in 1 .. MaxReqs :
            Unanswerable(i) ~> GotSenderDropped(i)

\* C7 witness: one request was enqueued and never received before the
\* actor's task finished, and returned SenderDropped; another one was sent
\* after the actor stopped and returned ActorStopped.
C7_Witness ==
    \E i \in DOMAIN ops : \E j \in DOMAIN ops :
        /\ ops[i].kind = "request" /\ ops[j].kind = "request"
        /\ ops[i].res = "SenderDropped"
        /\ ops[i].handled = "no"
        /\ pc[ops[i].to] = "done"
        /\ ops[j].res = "ActorStopped"

\* Addr::send and Recipient::send.
SendKinds == {"send", "recipient_send"}

\* The context of actor a was demoted to the Stopped phase, or dropped with
\* the driving task.
Demoted(a) == phase[a] \in {"Stopped", "Dropped"}

\* Caller c is suspended inside operation i.
SuspendedIn(c, i) == cpc[c] \in Suspended /\ cop[c] = {i}

\* An operation was started in this step; its id is Len(ops').
Started == Len(ops') = Len(ops) + 1

\* Caller c's suspended send resumed and finished sending in this step.
Resumed(c) == cpc[c] \in Suspended /\ cpc'[c] \notin Suspended

\* Operation i was the longest-suspended send to its target when a slot was
\* freed, and that slot is still kept for it.
NextInLine(i) ==
    /\ i \in DOMAIN ops
    /\ ops[i].kind \in SendKinds
    /\ \E c \in Callers : cpc[c] = "granted" /\ cop[c] = {i}

\* The send i completed successfully.
SentOk(i) == i \in DOMAIN ops /\ ops[i].res = "Ok"

\* C4 as stated: once the actor has consumed a pending normal message, so
\* that a slot is free for the longest-suspended send, that send completes
\* successfully and its message is enqueued.
C4_SuspendedSendCompletes ==
    [][\A c \in Callers : \A i \in cop[c] :
        (Resumed(c) /\ NextInLine(i)) =>
            /\ ops'[i].res = "Ok"
            /\ mailbox'[ops[i].to] = Append(mailbox[ops[i].to], i)]_vars

\* C4 amended: the normal queue never holds more than 16 messages; a send
\* issued while it holds 16 and the context is in the Running phase enqueues
\* nothing and suspends the caller; a suspended send completes successfully
\* only when a slot is free, and then enqueues its message, and ends with an
\* error only when the context was demoted; once the actor has consumed a
\* message, the longest-suspended send completes successfully unless the
\* context is demoted before that send resumes.
C4_Backpressure ==
    /\ [](\A a \in Actors : Len(mailbox[a]) <= MailboxCapacity)
    /\ [][/\ (Started /\ Last(ops').kind \in SendKinds) =>
                LET i == Len(ops')
                    a == ops'[i].to
                IN  (Len(mailbox[a]) = MailboxCapacity /\ ~Demoted(a)) =>
                        /\ mailbox' = mailbox
                        /\ ops'[i].res = "pending"
                        /\ \E c \in Callers : cop'[c] = {i} /\ cpc'[c] = "send"
          /\ \A c \in Callers : \A i \in cop[c] :
                (Resumed(c) /\ ops[i].kind \in SendKinds) =>
                    IF ops'[i].res = "Ok"
                    THEN /\ Len(mailbox[ops[i].to]) < MailboxCapacity
                         /\ mailbox'[ops[i].to] = Append(mailbox[ops[i].to], i)
                    ELSE Demoted(ops[i].to)]_vars
    /\ \A i \in MailboxCapacity + 1 .. MailboxCapacity + MaxOverflow + MaxPriority :
            NextInLine(i) ~> (SentOk(i) \/ (i \in DOMAIN ops /\ Demoted(ops[i].to)))

\* C4 witness: a send that was suspended on the full queue completed after
\* the actor consumed a message, its message is the last one in the queue,
\* which is full again, and another caller is still suspended.
C4_Witness ==
    \E a \in Actors : \E i \in Range(mailbox[a]) :
        /\ ops[i].kind \in SendKinds
        /\ ops[i].waited
        /\ ops[i].res = "Ok"
        /\ Len(mailbox[a]) = MailboxCapacity
        /\ Last(mailbox[a]) = i
        /\ waiters[a] # <<>>
        /\ received[a] # <<>>

\* In the table of operations, the send of operation i reported the
\* target-stopped error.
StoppedIn(table, i) == table[i].res = StoppedError(table[i].kind)

TargetStopped(i) == StoppedIn(ops, i)

\* Every place a message can be: the two queues, what message() returned,
\* what drain() returned.
Delivered(a) ==
    Range(mailbox[a]) \cup Range(priority_mailbox[a]) \cup Range(received[a])
        \cup (IF drained[a] = <<>> THEN {} ELSE Range(drained[a][1]))

\* Operation i is suspended in its send and its target was demoted.
SuspendedOnDemoted(i) ==
    /\ i \in DOMAIN ops
    /\ Demoted(ops[i].to)
    /\ \E c \in Callers : SuspendedIn(c, i)

\* C8: once the context was demoted to the Stopped phase or the task has
\* finished, every send, send_priority and send half of a request that is
\* started reports the target-stopped error and enqueues nothing; a send that
\* was suspended on the full queue ends with that error too, and does end; a
\* message whose send reported the error is in neither queue and is never
\* returned by message() or drain().
C8_TargetStopped ==
    /\ [][/\ Started =>
                LET i == Len(ops')
                IN  Demoted(ops'[i].to) =>
                        /\ StoppedIn(ops', i)
                        /\ mailbox' = mailbox
                        /\ priority_mailbox' = priority_mailbox
                        /\ \A c \in Callers : cop'[c] = {i} => cpc'[c] = "idle"
          /\ \A c \in Callers : \A i \in cop[c] :
                (Resumed(c) /\ Demoted(ops[i].to)) =>
                    /\ StoppedIn(ops', i)
                    /\ mailbox' = mailbox
                    /\ cpc'[c] = "idle"]_vars
    /\ [](\A i \in DOMAIN ops :
            TargetStopped(i) => \A a \in Actors : i \notin Delivered(a))
    /\ \A i \in MailboxCapacity + 1 .. MailboxCapacity + MaxOverflow + MaxPriority :
            SuspendedOnDemoted(i) ~> (i \in DOMAIN ops /\ TargetStopped(i))

\* C8 witness: after the actor stopped and drained, a send that had been
\* suspended on the full queue reported SendError, a request started
\* afterwards reported ActorStopped, and a send_priority reported SendError.
C8_Witness ==
    \E i \in DOMAIN ops : \E j \in DOMAIN ops : \E k \in DOMAIN ops :
        /\ ops[i].kind \in SendKinds /\ ops[i].waited /\ ops[i].res = "SendError"
        /\ ops[j].kind \in RequestKinds /\ ops[j].res = "ActorStopped"
        /\ ops[k].kind = "send_priority" /\ ops[k].res = "SendError"
        /\ drained[ops[i].to] # <<>>

\* C9: a send_priority started while the target is in the Running phase
\* completes at once with success and appends its message to the priority
\* queue, whatever the normal queue holds and whoever is suspended in send;
\* no caller is ever suspended in send_priority.
C9_SendPriorityNeverSuspends ==
    /\ [][(Started /\ Last(ops').kind = "send_priority") =>
            LET i == Len(ops')
                a == ops'[i].to
            IN  phase[a] = "Running" =>
                    /\ ops'[i].res = "Ok"
                    /\ priority_mailbox'[a] = Append(priority_mailbox[a], i)
                    /\ cpc' = cpc]_vars
    /\ [](\A c \in Callers : \A i \in cop[c] :
            ops[i].kind = "send_priority" => cpc[c] = "idle")

\* C9 witness: the priority queue holds more messages than the normal queue's
\* capacity while the normal queue is full and a caller is suspended in send.
C9_Witness ==
    \E a \in Actors :
        /\ phase[a] = "Running"
        /\ Len(priority_mailbox[a]) > MailboxCapacity
        /\ Len(mailbox[a]) = MailboxCapacity
        /\ waiters[a] # <<>>

\* C11 as stated: a send through the Addr returned by hire_with, started
\* after setup has declined, is accepted and does not report target-stopped.
C11_AddrValidAfterDecline ==
    [][(Started /\ Declined(Last(ops').to)) => ~StoppedIn(ops', Len(ops'))]_vars

\* C11 amended: the Addr returned by hire_with accepts sends until setup has
\* declined; the Context is dropped when setup returns no actor, so every
\* send, send_priority and request started afterwards reports the
\* target-stopped error and enqueues nothing, and nothing is left queued.
C11_AddrStoppedAfterDecline ==
    /\ [][Started =>
            LET i == Len(ops')
                a == ops'[i].to
            IN  /\ Declined(a) =>
                    /\ StoppedIn(ops', i)
                    /\ mailbox' = mailbox
                    /\ priority_mailbox' = priority_mailbox
                /\ (via[a] = "hire_with" /\ pc[a] \in {"spawned", "setup"}) =>
                    /\ ~StoppedIn(ops', i)
                    /\ i \in Range(mailbox'[a]) \cup Range(priority_mailbox'[a])]_vars
    /\ [](\A a \in Actors :
            Declined(a) =>
                /\ phase[a] = "Dropped"
                /\ mailbox[a] = <<>>
                /\ priority_mailbox[a] = <<>>)

\* C11 witness: a send through the Addr was accepted before setup declined
\* and was never received; a later send through the same Addr reported
\* SendError, and a request reported ActorStopped.
C11_Witness ==
    \E a \in Actors : \E i \in DOMAIN ops : \E j \in DOMAIN ops : \E k \in DOMAIN ops :
        /\ Declined(a)
        /\ ops[i].to = a /\ ops[j].to = a /\ ops[k].to = a
        /\ ops[i].kind = "send" /\ ops[i].res = "Ok" /\ i \notin Range(received[a])
        /\ ops[j].kind = "send" /\ ops[j].res = "SendError"
        /\ ops[k].kind = "request" /\ ops[k].res = "ActorStopped"

\* C12: any two Addr values that descend by clones from the value one hire
\* returned compare equal and hash identically, and two values that descend
\* from two separate hire / hire_with calls never compare equal, after any
\* sequence of hires and clones; an Addr carries the id its Context got.
C12_AddrIdentity ==
    \A i \in DOMAIN handles : \A j \in DOMAIN handles :
        /\ handles[i].of = handles[j].of =>
               (eq(handles[i], handles[j]) /\ hash(handles[i]) = hash(handles[j]))
        /\ handles[i].of # handles[j].of => ~eq(handles[i], handles[j])
        /\ handles[i].id = addr_id[handles[i].of]

\* C12 witness: two hires were made, one by hire and one by hire_with, and a
\* clone of a clone of the first Addr exists next to a clone of the second.
C12_Witness ==
    \E i \in DOMAIN handles : \E j \in DOMAIN handles : \E k \in DOMAIN handles :
        /\ i < j /\ j < k
        /\ Len(handles) = NActors + MaxClones
        /\ handles[i].of = handles[j].of
        /\ handles[k].of # handles[i].of
        /\ via[handles[i].of] # via[handles[k].of]
        /\ Cardinality({n \in DOMAIN handles : handles[n].of = handles[i].of}) >= 3
        /\ Cardinality({n \in DOMAIN handles : handles[n].of = handles[k].of}) >= 2

\* What a send on the bounded channel of actor a does in the current state:
\* refused when the context was demoted, suspended when the 16 slots are
\* taken (by pending messages and by woken senders that have not enqueued
\* yet) or an earlier send is suspended, enqueued otherwise.
SendOutcome(a) ==
    IF Demoted(a) THEN "refused"
    ELSE IF Len(mailbox[a]) + Reserved(a) = MailboxCapacity \/ waiters[a] # <<>> THEN "suspended"
    ELSE "enqueued"

\* C13: Recipient::send does what Addr::send on the originating address does
\* in the same state: it reports the stopped target exactly when the context
\* was demoted, suspends exactly when 16 messages are pending (or an earlier
\* send is suspended), and otherwise appends to the tail of the same normal
\* queue; it never touches the priority queue; a suspended send of either
\* kind resumes the same way.
C13_RecipientSendsLikeAddr ==
    [][/\ (Started /\ Last(ops').kind \in SendKinds) =>
            LET i == Len(ops')
                a == ops'[i].to
            IN  /\ priority_mailbox' = priority_mailbox
                /\ SendOutcome(a) = "refused" =>
                       (ops'[i].res = "SendError" /\ mailbox' = mailbox /\ waiters' = waiters)
                /\ SendOutcome(a) = "suspended" =>
                       /\ ops'[i].res = "pending"
                       /\ mailbox' = mailbox
                       /\ \E c \in Callers :
                              /\ cop'[c] = {i}
                              /\ waiters'[a] = Append(waiters[a], c)
                /\ SendOutcome(a) = "enqueued" =>
                       /\ ops'[i].res = "Ok"
                       /\ mailbox'[a] = Append(mailbox[a], i)
                       /\ waiters' = waiters
       /\ \A c \in Callers : \A i \in cop[c] :
            (Resumed(c) /\ ops[i].kind \in SendKinds) =>
                /\ priority_mailbox' = priority_mailbox
                /\ IF Demoted(ops[i].to)
                   THEN ops'[i].res = "SendError" /\ mailbox' = mailbox
                   ELSE /\ ops'[i].res = "Ok"
                        /\ mailbox'[ops[i].to] = Append(mailbox[ops[i].to], i)]_vars

\* C13 witness: a Recipient::send was suspended behind an Addr::send on the
\* full queue, both were enqueued in that order once the actor had consumed
\* two messages, and the actor's context is still in the Running phase.
C13_Witness ==
    \E a \in Actors : \E m \in DOMAIN mailbox[a] : \E n \in DOMAIN mailbox[a] :
        /\ m < n
        /\ ops[mailbox[a][m]].kind = "send" /\ ops[mailbox[a][m]].waited
        /\ ops[mailbox[a][n]].kind = "recipient_send" /\ ops[mailbox[a][n]].waited
        /\ mailbox[a][m] < mailbox[a][n]
        /\ phase[a] = "Running"

\* The actors that were hired.
Hired == {a \in Actors : pc[a] # "none"}

\* C14: for an actor whose run calls ctx.stop() in its first invocation and
\* whose stopping is the default, run is invoked exactly once and stopped
\* after it; wait() returns only after the stopped callback of every such
\* actor has finished, and under fair scheduling it does return.
C14_StopOnFirstRun ==
    /\ [](\A a \in Hired :
            /\ Count(log[a], "run") <= 1
            /\ pc[a] = "done" =>
                   log[a] = <<"init", "run", "stopping", "Stop", "stopped">>
            /\ wait_pc = "done" => pc[a] = "done")
    /\ [][(wait_pc # "done" /\ wait_pc' = "done") =>
            \A a \in Hired : pc[a] = "done"]_vars
    /\ (wait_pc # "idle") ~> (wait_pc = "done")

\* C14 witness: every actor was hired from outside, ran once, was stopped,
\* and wait() has returned after their stopped callbacks finished.
C14_Witness ==
    /\ wait_pc = "done"
    /\ Hired = Actors
    /\ \A a \in Hired :
        /\ origin[a].by = "outside"
        /\ log[a] = <<"init", "run", "stopping", "Stop", "stopped">>

\* The wait loop took a step.
WaitStepped == wait_pc' # wait_pc \/ futures' # futures

\* C15 as stated: wait() never returns in a state where a task handle is
\* still pending in the registration channel or a tracked task is unfinished.
C15_ReturnsWithNothingPending ==
    wait_pc = "done" => (channel = <<>> /\ futures = {})

\* C15 amended: provided every hire made from outside an actor is complete
\* before wait() is called, wait() returns only when no handle is pending in
\* the registration channel, no hire is under way and the tracked set is
\* empty; an iteration that finds a registration pending accepts it and
\* observes no completion, and completions are observed (and the return is
\* decided) only in an iteration that found no registration pending.
C15_RegistrationsFirst ==
    /\ [](wait_pc = "done" /\ ~lateHire =>
            /\ channel = <<>>
            /\ futures = {}
            /\ \A h \in Actors : hiring[h] = {})
    /\ [][WaitStepped =>
            /\ (wait_pc = "recv" /\ channel # <<>>) =>
                   /\ futures' = futures \cup {Head(channel)}
                   /\ channel' = Tail(channel)
                   /\ wait_pc' = "recv"
            /\ (wait_pc' = "done" \/ ~(futures \subseteq futures')) =>
                   wait_pc = "futs"
            /\ wait_pc' = "done" => futures = {}]_vars

\* C15 witness: the last tracked actor hired a new actor after wait() was
\* called and has finished; its completion was observed, and the new actor,
\* still running, is the only tracked task.
C15_Witness ==
    /\ wait_pc \in {"recv", "futs"}
    /\ ~lateHire
    /\ \E b \in Actors :
        /\ origin[b].by = "actor"
        /\ origin[b].after_wait
        /\ futures = {b}
        /\ pc[b] \notin {"none", "done"}
        /\ \A h \in Actors \ {b} : pc[h] = "done"

\* The event before position k of actor a's log.
Before(a, k) == log[a][k - 1]

\* C16: the callbacks of every hired actor follow
\* init, (run*, stopping, Recover)*, run*, stopping, Stop, stopped:
\* init is the first callback and is invoked once, before any run; run is
\* invoked only while the stop flag is clear; stopping is invoked only when
\* the run loop exits with the flag set; stopped is invoked at most once,
\* right after a stopping that returned Stop, and nothing is invoked after it;
\* a finished actor that setup did not decline had init and stopped once each.
C16_LifecycleOrder ==
    /\ [](\A a \in Actors : \A k \in DOMAIN log[a] :
            /\ log[a][1] \in {"init", "declined"}
            /\ log[a][k] \in {"init", "declined"} => k = 1
            /\ log[a][k] = "run" => (k > 1 /\ Before(a, k) \in {"init", "run", "Recover"})
            /\ log[a][k] = "stopping" =>
                   (k > 1 /\ Before(a, k) \in {"init", "run", "Recover"})
            /\ log[a][k] \in Verdicts => (k > 1 /\ Before(a, k) = "stopping")
            /\ log[a][k] = "stopped" => (k = Len(log[a]) /\ Before(a, k) = "Stop")
            /\ log[a][k] = "Stop" => k >= Len(log[a]) - 1)
    /\ [](\A a \in Actors :
            (pc[a] = "done" /\ ~Declined(a)) =>
                (Count(log[a], "init") = 1 /\ Count(log[a], "stopped") = 1))
    /\ [][\A a \in Actors :
            /\ Logged(a, "run") => (~ctx_stopped[a] /\ pc[a] = "loop")
            /\ Logged(a, "stopping") => (ctx_stopped[a] /\ pc[a] = "loop")
            /\ Logged(a, "stopped") => (pc[a] = "stopping" /\ phase'[a] = "Stopped")]_vars

\* C16 witness: an actor built by setup called stop() in init, so that the
\* run loop exited without a run; stopping returned Recover, run was invoked,
\* then stopping returned Stop and stopped ran last.
C16_Witness ==
    \E a \in Actors :
        /\ via[a] = "hire_with"
        /\ pc[a] = "done"
        /\ log[a] = <<"init", "stopping", "Recover", "run", "stopping", "Stop", "stopped">>

\* The messages of the given kinds in a sequence of operation ids.
OfKinds(s, kinds) == SelectSeq(s, LAMBDA i : ops[i].kind \in kinds)

\* The messages accepted into the normal queue of actor a, in the order
\* message() has returned them, followed by those still queued.
NormalHistory(a) == OfKinds(received[a], NormalKinds) \o mailbox[a]

\* The same for the priority queue.
PriorityHistory(a) == OfKinds(received[a], PriorityKinds) \o priority_mailbox[a]

\* The history h becomes h2 by one message joining at its end, or stays.
Extends(h, h2) == h2 = h \/ (Len(h2) = Len(h) + 1 /\ SubSeq(h2, 1, Len(h)) = h)

\* C17: message() returns the messages of one queue in the order in which
\* they were enqueued: while the context lives, a step either appends a newly
\* accepted message to the end of its queue's history or moves the head of a
\* queue to the returned messages, so the returned order never departs from
\* the enqueue order; only priority precedence orders a normal message
\* against a priority message.
C17_FifoPerQueue ==
    [][\A a \in Actors :
        LET n == NormalHistory(a)
            n2 == SelectSeq(received'[a], LAMBDA i : ops'[i].kind \in NormalKinds)
                      \o mailbox'[a]
            p == PriorityHistory(a)
            p2 == SelectSeq(received'[a], LAMBDA i : ops'[i].kind \in PriorityKinds)
                      \o priority_mailbox'[a]
        IN  /\ phase'[a] = "Running" => (Extends(n, n2) /\ Extends(p, p2))
            /\ MessageReturned(a) =>
                   /\ n2 = n /\ p2 = p
                   /\ Last(received'[a]) \in {Head(mailbox[a] \o <<0>>),
                                             Head(priority_mailbox[a] \o <<0>>)}]_vars

\* C17 witness: two priority messages (a notify, then a send_priority) were
\* returned in their enqueue order, both before a normal message that had
\* been enqueued before either of them.
C17_Witness ==
    \E a \in Actors :
        /\ Len(received[a]) = 3
        /\ ops[received[a][1]].kind = "notify"
        /\ ops[received[a][2]].kind = "send_priority"
        /\ ops[received[a][3]].kind = "send"
        /\ received[a][3] < received[a][1]
        /\ received[a][1] < received[a][2]

\* The send of operation i was accepted: it was not refused and its caller is
\* not suspended in it.
Accepted(i) == ~TargetStopped(i) /\ \A c \in Callers : ~SuspendedIn(c, i)

\* The accepted messages of actor a that message() has not returned.
Remaining(a) ==
    {i \in DOMAIN ops : ops[i].to = a /\ Accepted(i)} \ Range(received[a])

\* In the sequence d every priority message comes before every normal
\* message, and the messages of one queue are in the order they were sent.
PriorityThenFifo(d) ==
    \A m \in DOMAIN d : \A n \in DOMAIN d :
        m < n =>
            /\ d[m] # d[n]
            /\ ops[d[m]].kind \in NormalKinds => ops[d[n]].kind \in NormalKinds
            /\ (ops[d[m]].kind \in NormalKinds <=> ops[d[n]].kind \in NormalKinds)
                   => d[m] < d[n]

\* C18: what drain() returned is exactly the accepted messages that
\* message() had not returned, each once, the priority messages first in
\* their FIFO order and then the normal messages in theirs; no message is
\* returned both by message() and by drain().
C18_DrainContents ==
    \A a \in Actors :
        drained[a] # <<>> =>
            /\ Range(drained[a][1]) = Remaining(a)
            /\ Range(drained[a][1]) \cap Range(received[a]) = {}
            /\ PriorityThenFifo(drained[a][1])

\* C18 witness: drain() returned a priority message followed by a normal
\* message that had been sent before it, after message() had returned another
\* message.
C18_Witness ==
    \E a \in Actors :
        /\ drained[a] # <<>>
        /\ Len(drained[a][1]) = 2
        /\ ops[drained[a][1][1]].kind \in PriorityKinds
        /\ ops[drained[a][1][2]].kind \in NormalKinds
        /\ drained[a][1][2] < drained[a][1][1]
        /\ received[a] # <<>>

\* Bounds the notify calls made once the mailbox had been filled.
NotifyBudget == Cardinality(Extra({"notify"})) < MaxNotify

\* Stopping under load: against a full mailbox one caller sends through the
\* Addr and the others through a Recipient made of it, and get suspended;
\* the actor notifies itself, consumes, stops and drains in its stopped
\* callback.
NextDrain ==
    \/ ShortLife
    \/ \E a \in FirstActor : drain_call(a)
    \/ \E a \in FirstActor : drain(a)
    \/ \E c \in FirstCaller, a \in FirstActor : OverflowBudget /\ send(c, a)
    \/ \E c \in Callers \ FirstCaller, a \in FirstActor :
           OverflowBudget /\ recipient_send(c, a)
    \/ \E a \in FirstActor : NotifyBudget /\ notify(a)
    \/ \E c \in Callers : mailer_resume(c)
    \/ \E a \in FirstActor : ReceiveBudget /\ message(a)
    \/ \E a \in FirstActor : discard(a)

\* A woken sender is polled again; the future drain() returned is polled
\* again once its streams have something to yield.
SpecDrain ==
    /\ InitFull
    /\ [][NextDrain]_vars
    /\ \A c \in Callers : WF_vars(mailer_resume(c))
    /\ \A a \in Actors : WF_vars(drain(a))

\* The stopped callback of actor a was entered.
StoppedEntered(a) == pc[a] \in {"stopped", "draining", "done"}

\* drain() returned to the stopped callback of actor a.
Drained(a) == drained[a] # <<>>

\* C19: a drain() that was called returns, whatever senders are alive and
\* whoever is suspended in a send; what it returns is what the two queues
\* held when the stopped callback was entered; from that point on neither
\* queue grows.
C19_DrainTerminates ==
    /\ [][\A a \in Actors :
            StoppedEntered(a) =>
                /\ Len(mailbox'[a]) <= Len(mailbox[a])
                /\ Len(priority_mailbox'[a]) <= Len(priority_mailbox[a])
                /\ (~Drained(a) /\ Drained(a)') =>
                       drained'[a] = <<priority_mailbox[a] \o mailbox[a]>>
                /\ (~Drained(a) /\ ~Drained(a)' /\ pc'[a] # "done") =>
                       /\ mailbox'[a] = mailbox[a]
                       /\ priority_mailbox'[a] = priority_mailbox[a]]_vars
    /\ \A a \in Actors : (pc[a] = "draining") ~> Drained(a)

\* C19 witness: drain() returned buffered messages while a clone of the Addr
\* is alive outside, one caller is still suspended in a send to the actor,
\* and another send that had been woken with a slot was refused.
C19_Witness ==
    \E a \in Actors : \E c \in Callers : \E i \in DOMAIN ops :
        /\ Drained(a)
        /\ drained[a][1] # <<>>
        /\ addrs[a]
        /\ cpc[c] \in Suspended
        /\ \E id \in cop[c] : ops[id].to = a /\ ops[id].res = "pending"
        /\ ops[i].to = a
        /\ ops[i].waited
        /\ TargetStopped(i)
        /\ Len(drained[a][1]) < MailboxCapacity

\* The messages notify put in actor a's priority queue that message() has
\* not returned yet.
NotifiedPending(a) == Pending(a, {"notify"})

\* C20: a notify call in a Running-phase callback appends its message to the
\* tail of the actor's own priority queue and reports success, whatever the
\* normal queue holds: it leaves the normal queue and the suspended senders
\* alone, the callback goes on, nothing panics; and message() never returns a
\* normal message while a notified message is pending.
C20_NotifyJumpsQueue ==
    [][/\ \A a \in Actors :
            (InCallback(a) /\ phase[a] = "Running" /\ Len(ops') > Len(ops)
                /\ Last(ops').kind = "notify" /\ Last(ops').to = a) =>
                /\ Last(ops').res = "Ok"
                /\ priority_mailbox'[a] = Append(priority_mailbox[a], Len(ops'))
                /\ mailbox' = mailbox
                /\ waiters' = waiters
                /\ cpc' = cpc
                /\ pc' = pc
                /\ panics' = panics
       /\ \A p \in panics' : p.why # "notify"
       /\ \A a \in Actors :
            (MessageReturned(a) /\ NotifiedPending(a) # {}) =>
                /\ ops[Last(received'[a])].kind \in PriorityKinds
                /\ mailbox'[a] = mailbox[a]]_vars

\* C20 witness: with 16 messages in the normal queue and a caller suspended
\* in a send, the actor notified itself and its next message() returned the
\* notified message; the 16 normal messages are still pending.
C20_Witness ==
    \E a \in Actors : \E c \in Callers :
        /\ Len(received[a]) = 1
        /\ ops[received[a][1]].kind = "notify"
        /\ Len(mailbox[a]) = MailboxCapacity
        /\ cpc[c] = "send"
        /\ waiters[a] = <<c>>
        /\ phase[a] = "Running"

\* What a request_timeout call can return to its caller.
TimeoutOutcomes == Values \cup {"ActorStopped", "SenderDropped", "Timeout"}

\* Request i has returned Timeout to its caller.
TimedOut(i) == ops[i].res = "Timeout"

\* The responder sent a reply on the reply sender of Request i in this step.
Replied(i) == ops[i].replied = "none" /\ ops'[i].replied # "none"

\* C21: a request_timeout call returns one outcome, once, out of a value,
\* ActorStopped, SenderDropped and Timeout, and the caller is then out of the
\* call; a request that returned Timeout never has a reply delivered to its
\* receiver; a responder holding the reply sender of a timed-out request can
\* send its reply: the send records the responder's value, delivers nothing,
\* leaves the caller's outcome alone, and the responder stays in its callback
\* with nothing panicking.
C21_TimeoutCancelsOnlyTheWait ==
    /\ [](\A i \in DOMAIN ops :
            ops[i].kind = "request_timeout" =>
                /\ ops[i].res \in TimeoutOutcomes \cup {"pending"}
                /\ ops[i].res # "pending" => ~InFlight(i)
                /\ TimedOut(i) => ops[i].value = "none")
    /\ [](\A a \in Actors : \A i \in held[a] : \A v \in Values :
            (TimedOut(i) /\ pc[a] \in RunningCallbacks \cup {"stopped"}) =>
                ENABLED reply(a, i, v))
    /\ [][\A i \in DOMAIN ops :
            /\ (ops[i].kind = "request_timeout" /\ ops[i].res # "pending") =>
                   ops'[i].res = ops[i].res
            /\ (TimedOut(i) /\ Replied(i)) =>
                   /\ ops'[i].replied \in Values
                   /\ ops'[i].value = "none"
                   /\ ops'[i].handled = "Some"
                   /\ pc' = pc
                   /\ panics' = panics
                   /\ cpc' = cpc
                   /\ \A a \in Actors : held'[a] = held[a] \ {i}]_vars

\* C21 witness: the responder took the reply sender of a request_timeout from
\* handle(), the caller then timed out, the responder replied afterwards and
\* went on to receive a later message; nothing was delivered, nothing panicked.
C21_Witness ==
    \E a \in Actors : \E i \in DOMAIN ops :
        /\ ops[i].kind = "request_timeout"
        /\ ops[i].res = "Timeout"
        /\ ops[i].handled = "Some"
        /\ ops[i].replied \in Values
        /\ ops[i].value = "none"
        /\ panics = {}
        /\ \E j \in cur[a] : j > i

\* An actor left alone: one actor hired from outside before wait() is called,
\* callers that send and then drop every Addr and Recipient clone they hold,
\* the actor receiving, suspending in message(), notifying itself and
\* stopping, and the wait loop.
NextOrphan ==
    \/ ShortLife
    \/ \E a \in FirstActor : message_await(a)
    \/ \E a \in FirstActor : message_resume(a)
    \/ \E a \in FirstActor : message(a)
    \/ \E a \in FirstActor : discard(a)
    \/ \E c \in Callers, a \in FirstActor : MsgBudget /\ send(c, a)
    \/ \E c \in Callers, a \in FirstActor : MsgBudget /\ send_priority(c, a)
    \/ \E a \in FirstActor : MsgBudget /\ notify(a)
    \/ \E a \in FirstActor : drop_addrs(a)
    \/ wait_call
    \/ WaitLoop

\* A woken task is polled again; the wait loop is polled when a branch is ready.
SpecOrphan ==
    /\ InitHired
    /\ [][NextOrphan]_vars
    /\ WF_vars(WaitLoop)
    /\ \A a \in Actors : WF_vars(message_resume(a))

\* The driving task of actor a is inside a callback that takes Context<Running>,
\* possibly suspended in message().
HoldsRunningContext(a) == pc[a] \in RunningCallbacks \cup {"receiving"}

\* A panic of the given expect / unreachable was raised in an actor's task.
Panicked(why) == \E p \in panics : p.who = "actor" /\ p.why = why

\* C22: whenever an actor's task is inside a callback that works on the
\* Running context, both queues are open and a sender of each is alive,
\* whether or not an Addr or Recipient clone is left outside; a poll of
\* message() never finds both streams ended, and neither the unreachable!
\* in message() nor the expect in notify() ever panics; a send is refused
\* only when the context was demoted to Stopped or dropped.
C22_QueuesOpenWhileRunning ==
    /\ [](\A a \in Actors :
            HoldsRunningContext(a) =>
                /\ phase[a] = "Running"
                /\ message_pick(a) # "unreachable"
                /\ ~StreamEnded(a, mailbox[a])
                /\ ~StreamEnded(a, priority_mailbox[a]))
    /\ [](~Panicked("message") /\ ~Panicked("notify"))
    /\ [][Started => (StoppedIn(ops', Len(ops')) => Demoted(Last(ops').to))]_vars

\* C22 witness: no Addr or Recipient clone is left outside, the context is in
\* the Running phase with its task suspended in message() on two empty
\* queues, after message() had returned a notified message; nothing panicked.
C22_Witness ==
    \E a \in Actors :
        /\ ~addrs[a]
        /\ phase[a] = "Running"
        /\ pc[a] = "receiving"
        /\ mailbox[a] = <<>> /\ priority_mailbox[a] = <<>>
        /\ received[a] # <<>>
        /\ ops[Last(received[a])].kind = "notify"
        /\ panics = {}

\* The last Addr / Recipient clone of actor a held outside was dropped in
\* this step.
OutsideDropped(a) == addrs[a] /\ ~addrs'[a]

\* Actor a is suspended in message() on two empty queues and no Addr or
\* Recipient clone of it is left outside, in the given state.
OrphanedIn(a, at, mb, pmb, out) ==
    at[a] = "receiving" /\ mb[a] = <<>> /\ pmb[a] = <<>> /\ ~out[a]

Orphaned(a) == OrphanedIn(a, pc, mailbox, priority_mailbox, addrs)

\* C23: dropping the last outside clone changes nothing in the actor (its
\* position, phase, stop flag and both queues are as before); an actor
\* suspended in message() on two empty queues with no clone left outside
\* stays exactly so in every later state, its task is never finished, and a
\* wait() that tracks it has not returned.
C23_OrphanWaitsForever ==
    /\ [][\A a \in Actors :
            /\ OutsideDropped(a) =>
                   /\ pc' = pc /\ phase' = phase /\ ctx_stopped' = ctx_stopped
                   /\ mailbox' = mailbox /\ priority_mailbox' = priority_mailbox
                   /\ panics' = panics
            /\ Orphaned(a) =>
                   OrphanedIn(a, pc', mailbox', priority_mailbox', addrs')]_vars
    /\ [](\A a \in Actors :
            Orphaned(a) => (phase[a] = "Running" /\ ~Finished(a) /\ wait_pc # "done"))

\* C23 witness: the actor received a message, suspended in message() again,
\* the last outside clone was dropped, and wait() is in its loop tracking the
\* actor's task with nothing left to register.
C23_Witness ==
    \E a \in Actors :
        /\ Orphaned(a)
        /\ received[a] # <<>>
        /\ ops[Last(received[a])].kind = "send"
        /\ wait_pc = "futs"
        /\ a \in futures
        /\ channel = <<>>

\* The expect in Spawner::spawn failed somewhere.
SpawnPanicked == \E p \in panics : p.why = "spawn"

\* Actor h finished the Spawner::spawn of a hire it made in this step.
RegisteredInside(h) == hiring[h] # {} /\ hiring'[h] = {}

\* C24: provided every hire made from outside an actor is complete before
\* wait() is called, the expect in Spawner::spawn never fails; a hire made
\* inside a callback puts the new task's handle at the tail of the
\* registration channel and the hiring task goes on, whether or not the
\* hiring task's own handle was registered by then; and wait() has not
\* returned while a task that can still hire is unfinished.
C24_RegistrationChannelOpen ==
    /\ [](~lateHire => ~SpawnPanicked)
    /\ [](~lateHire =>
            \A h \in Actors :
                (hiring[h] # {} \/ pc[h] \in RunningCallbacks \cup {"stopped"}) =>
                    wait_pc # "done")
    /\ [][\A h \in Actors :
            (RegisteredInside(h) /\ ~lateHire) =>
                /\ \E a \in hiring[h] : channel' = Append(channel, a)
                /\ pc'[h] = pc[h]
                /\ panics' = panics]_vars

\* C24 witness: an actor hired from outside started running before its own
\* handle was registered, hired another actor in a callback and registered
\* it; the new actor's handle is in the channel, the hiring actor's is not
\* yet, and nothing panicked.
C24_Witness ==
    \E h \in Actors : \E a \in Actors :
        /\ ext_hiring = {h}
        /\ hiring[h] = {}
        /\ origin[a].by = "actor"
        /\ channel = <<a>>
        /\ pc[h] \in RunningCallbacks
        /\ panics = {}
        /\ ~lateHire

====
